---- MODULE Spec2Model ----
(***************************************************************************)
(* A model of weblite: the HTTP request parser (request.rs), the header    *)
(* catalog (header.rs), the ASCII helpers (ascii.rs), the Responder state  *)
(* machine (response.rs) and the connection driver Server::serve           *)
(* (server.rs).  Text is modelled as sequences of byte values 0..255.      *)
(* Option<T> is a sequence of length 0 (None) or 1 (Some).                 *)
(***************************************************************************)
EXTENDS Integers, Sequences, FiniteSets, TLC

VARIABLES
    \* ---- Request::parse applied to a growing input (SpecParse)
    p_full,        \* the complete request the client is sending
    p_data,        \* the bytes handed to Request::parse
    p_res,         \* what Request::parse returned for p_data
    p_get,         \* the last call of get_header on the Request of p_res
    \* ---- Responder / ResponderSending (SpecResp)
    r_state,       \* "Initial" | "Sending" | "Terminal" | "Dropped"
    r_server,      \* ResponderInner.server: the value of ResponseHeader::Server
    r_calls,       \* the Responder operations called so far, in order
    r_result,      \* result of the last Responder operation
    r_wlog,        \* every write_all attempted on the stream, in order
    r_out,         \* the bytes the stream has accepted
    r_unflushed,   \* the accepted bytes that no flush of the stream has followed
    r_upg,         \* the request given to Responder::upgrade, with the key it carries
    \* ---- Server::serve (Spec)
    pc,            \* where serve is: "read" | "handle_request" | "handle_websocket" | "done"
    pending,       \* the messages the client has still to send, the current one first
    pos,           \* how many bytes of the current message have been read
    cur_msg,       \* ghost: the whole message the last received byte belongs to
    sent,          \* ghost: the bytes received since the loop last restarted at offset 0
    http_buff,     \* the caller's buffer
    http_buff_offset,
    parsed,        \* ghost: the slice the last read handed to Request::parse
    last_parse,    \* ghost: what that parse returned
    cur_req,       \* the Request handed to handle_request
    upgraded,      \* ghost: handle_request has returned Ok(Some(ws))
    n_handle_websocket,     \* ghost: calls of handle_websocket
    n_parse_after_upgrade,  \* ghost: calls of Request::parse since the upgrade
    n_handle_after_upgrade, \* ghost: calls of handle_request since the upgrade
    net_error,     \* ghost: where a network error has occurred, or "none"
    last_step,     \* ghost: the outcome that led serve to where it is
    serve_result,  \* what serve returned
    \* ---- WebsocketFrame and Websocket (SpecWs)
    w_mode,        \* which operation is exercised: "decode" | "encode" | "receive" | "send" | "mask"
    w_hdr,         \* decode: the bytes a frame starts with
    w_given,       \* decode: how many of them decode was given
    w_dec,         \* decode: what decode returned for them
    w_frame,       \* encode: the frame encoded
    w_enc,         \* encode: what encode returned on a zeroed header buffer
    w_rt,          \* encode: what decode returned for the encoded header bytes
    w_frames,      \* receive: ghost: the frames the client has sent, in order
    w_stream,      \* receive: the bytes of the stream not yet read
    w_buf,         \* receive: the caller's buffer
    w_k,           \* receive: calls of receive made
    w_rcv,         \* receive: the last result, with the buffer as it was before the call
    w_data,        \* send: the data of each send made
    w_wlog,        \* send: every write_all attempted on the stream
    w_out,         \* send: the bytes the stream has accepted
    w_snd,         \* send: the last result, with the stream as it was before the call
    w_msk,         \* apply_mask: the frame, the data before, the data now, calls made
    \* ---- atoi and AsciiInt (SpecAscii), and the build
    overflow_checks, \* the build panics on integer overflow (overflow-checks); else it wraps
    a_op,          \* which function is exercised: "atoi" | "itoa" | "resolve" | "accept"
    a_in,          \* its input: the bytes given to atoi, the u64 given to AsciiInt::from,
                   \* the (name, value) pair given to RequestHeader::try_from, or the
                   \* key given to sec_websocket_accept_val
    a_out          \* what it returned

parse_vars == <<p_full, p_data, p_res, p_get>>
resp_vars  == <<r_state, r_server, r_calls, r_result, r_wlog, r_out, r_unflushed, r_upg>>
serve_vars == <<pc, pending, pos, cur_msg, sent, http_buff, http_buff_offset, parsed,
                last_parse, cur_req, upgraded, n_handle_websocket,
                n_parse_after_upgrade, n_handle_after_upgrade, net_error,
                last_step, serve_result>>
ws_vars == <<w_mode, w_hdr, w_given, w_dec, w_frame, w_enc, w_rt, w_frames, w_stream,
             w_buf, w_k, w_rcv, w_data, w_wlog, w_out, w_snd, w_msk>>
ascii_vars == <<overflow_checks, a_op, a_in, a_out>>
vars == <<parse_vars, resp_vars, serve_vars, ws_vars, ascii_vars>>

----------------------------------------------------------------------------
(* Fixed-width integers.  A u32 or u64 that may not fit a model integer is  *)
(* its big-endian bytes, and the exact result of an operation on them may   *)
(* be longer than the type: the bytes above the width are what a wrapping   *)
(* operation drops and what a checked operation panics on.                  *)

\* the value of a byte string of at most 3 bytes, big-endian
RECURSIVE FromBeBytes(_)
FromBeBytes(b) ==
    IF b = <<>> THEN 0
    ELSE FromBeBytes(SubSeq(b, 1, Len(b) - 1)) * 256 + b[Len(b)]

\* n.to_be_bytes() for an integer of k bytes
RECURSIVE ToBeBytes(_, _)
ToBeBytes(n, k) ==
    IF k = 0 THEN <<>> ELSE ToBeBytes(n \div 256, k - 1) \o <<n % 256>>

\* the u64 with value n, for 0 <= n < 2^31
U64(n) == ToBeBytes(n, 8)

\* the u32 with value n, for 0 <= n < 2^31
U32(n) == ToBeBytes(n, 4)

\* a * k + carry, exact, for a small k
RECURSIVE MulSmall(_, _, _)
MulSmall(a, k, carry) ==
    IF a = <<>> THEN (IF carry = 0 THEN <<>> ELSE <<carry>>)
    ELSE MulSmall(SubSeq(a, 1, Len(a) - 1), k, (a[Len(a)] * k + carry) \div 256)
         \o <<(a[Len(a)] * k + carry) % 256>>

\* a + b + carry, exact
RECURSIVE AddBytes(_, _, _)
AddBytes(a, b, carry) ==
    IF a = <<>> /\ b = <<>> THEN (IF carry = 0 THEN <<>> ELSE <<carry>>)
    ELSE LET x == IF a = <<>> THEN 0 ELSE a[Len(a)]
             y == IF b = <<>> THEN 0 ELSE b[Len(b)]
         IN  AddBytes(IF a = <<>> THEN a ELSE SubSeq(a, 1, Len(a) - 1),
                      IF b = <<>> THEN b ELSE SubSeq(b, 1, Len(b) - 1),
                      (x + y + carry) \div 256)
             \o <<(x + y + carry) % 256>>

\* quotient and remainder of a by a small k: long division from the first byte
RECURSIVE DivSmall(_, _, _, _, _)
DivSmall(a, k, i, q, rem) ==
    IF i > Len(a) THEN [q |-> q, rem |-> rem]
    ELSE DivSmall(a, k, i + 1, Append(q, (rem * 256 + a[i]) \div k), (rem * 256 + a[i]) % k)

IsZero(a) == \A i \in 1..Len(a) : a[i] = 0

\* the exact value a fits w bytes
Fits(a, w) == \A i \in 1..(Len(a) - w) : a[i] = 0

\* the low w bytes of a: what a wrapping operation of that width keeps
Wrap(a, w) ==
    IF Len(a) >= w THEN SubSeq(a, Len(a) - w + 1, Len(a))
    ELSE [i \in 1..(w - Len(a)) |-> 0] \o a

----------------------------------------------------------------------------
(* ascii.rs *)

CR == 13
LF == 10
SP == 32
COLON == 58
ZERO == 48

CRLF == <<CR, LF>>

None == <<>>
Some(x) == <<x>>

\* 10_u32.pow(e), exact
RECURSIVE Pow10(_)
Pow10(e) == IF e = 0 THEN <<1>> ELSE MulSmall(Pow10(e - 1), 10, 0)

\* results of atoi: Some(val), None, or a panic of the arithmetic
AtoiSome(val) == [tag |-> "Some", val |-> val]
AtoiNone == [tag |-> "None", val |-> U32(0)]
AtoiPanic == [tag |-> "Panic", val |-> U32(0)]

\* atoi: every byte must be '0'..'9'; val += digit * 10^(len - position) in
\* u32.  The empty input runs the loop zero times and yields Some(0).  An
\* overflow of pow, of the product or of the sum panics in a build with
\* overflow checks and wraps in a build without.
RECURSIVE AtoiLoop(_, _, _)
AtoiLoop(data, i, val) ==
    \* pow, term and sum are the exact values of 10_u32.pow(len - position),
    \* digit_val * pow and val + term, each computed once per round
    IF i > Len(data) THEN AtoiSome(val)
    ELSE IF data[i] < 48 \/ data[i] > 57 THEN AtoiNone
    ELSE CHOOSE r \in
        { IF overflow_checks /\ ~ (Fits(s.pow, 4) /\ Fits(s.term, 4) /\ Fits(s.sum, 4))
          THEN AtoiPanic
          ELSE AtoiLoop(data, i + 1, Wrap(s.sum, 4)) :
              s \in { [pow |-> pow, term |-> term, sum |-> AddBytes(val, term, 0)] :
                          <<pow, term>> \in { <<p, MulSmall(p, data[i] - 48, 0)>> :
                                                  p \in {Pow10(Len(data) - i)} } } } : TRUE

atoi(data) == AtoiLoop(data, 1, U32(0))

\* `n as usize` for the u32 that atoi returned, as a model integer (below 2^31)
AsUsize(val) == FromBeBytes(SubSeq(val, 1, 1)) * 16777216 + FromBeBytes(SubSeq(val, 2, 4))

----------------------------------------------------------------------------
(* core::str: from_utf8, trim, eq_ignore_ascii_case, splitn *)

IsCont(b) == b >= 128 /\ b <= 191

RECURSIVE Utf8From(_, _)
Utf8From(d, i) ==
    IF i > Len(d) THEN TRUE
    ELSE LET b == d[i]
             n == Len(d)
         IN  IF b < 128 THEN Utf8From(d, i + 1)
             ELSE IF b >= 194 /\ b <= 223
                  THEN i + 1 <= n /\ IsCont(d[i + 1]) /\ Utf8From(d, i + 2)
             ELSE IF b >= 224 /\ b <= 239
                  THEN /\ i + 2 <= n
                       /\ IsCont(d[i + 1])
                       /\ (b = 224 => d[i + 1] >= 160)
                       /\ (b = 237 => d[i + 1] <= 159)
                       /\ IsCont(d[i + 2])
                       /\ Utf8From(d, i + 3)
             ELSE IF b >= 240 /\ b <= 244
                  THEN /\ i + 3 <= n
                       /\ IsCont(d[i + 1])
                       /\ (b = 240 => d[i + 1] >= 144)
                       /\ (b = 244 => d[i + 1] <= 143)
                       /\ IsCont(d[i + 2])
                       /\ IsCont(d[i + 3])
                       /\ Utf8From(d, i + 4)
             ELSE FALSE

\* a plausible slip: the bytes are taken for text unchecked
from_utf8_unchecked_ok(d) == TRUE

\* str::from_utf8(d).is_ok()
from_utf8_ok(d) == Utf8From(d, 1)

AsciiWs == {9, 10, 11, 12, 13, 32}

\* byte length of a White_Space character at the start of s, 0 if none
WsPrefixLen(s) ==
    LET n == Len(s)
    IN  IF n >= 1 /\ s[1] \in AsciiWs THEN 1
        ELSE IF n >= 2 /\ s[1] = 194 /\ s[2] \in {133, 160} THEN 2
        ELSE IF n >= 3 /\ s[1] = 225 /\ s[2] = 154 /\ s[3] = 128 THEN 3
        ELSE IF n >= 3 /\ s[1] = 226 /\ s[2] = 128
                /\ s[3] \in (128..138) \cup {168, 169, 175} THEN 3
        ELSE IF n >= 3 /\ s[1] = 226 /\ s[2] = 129 /\ s[3] = 159 THEN 3
        ELSE IF n >= 3 /\ s[1] = 227 /\ s[2] = 128 /\ s[3] = 128 THEN 3
        ELSE 0

\* byte length of a White_Space character at the end of s, 0 if none
WsSuffixLen(s) ==
    LET n == Len(s)
    IN  IF n >= 1 /\ s[n] \in AsciiWs THEN 1
        ELSE IF n >= 2 /\ s[n - 1] = 194 /\ s[n] \in {133, 160} THEN 2
        ELSE IF n >= 3 /\ s[n - 2] = 225 /\ s[n - 1] = 154 /\ s[n] = 128 THEN 3
        ELSE IF n >= 3 /\ s[n - 2] = 226 /\ s[n - 1] = 128
                /\ s[n] \in (128..138) \cup {168, 169, 175} THEN 3
        ELSE IF n >= 3 /\ s[n - 2] = 226 /\ s[n - 1] = 129 /\ s[n] = 159 THEN 3
        ELSE IF n >= 3 /\ s[n - 2] = 227 /\ s[n - 1] = 128 /\ s[n] = 128 THEN 3
        ELSE 0

RECURSIVE TrimStart(_)
TrimStart(s) ==
    IF WsPrefixLen(s) = 0 THEN s
    ELSE TrimStart(SubSeq(s, WsPrefixLen(s) + 1, Len(s)))

RECURSIVE TrimEnd(_)
TrimEnd(s) ==
    IF WsSuffixLen(s) = 0 THEN s
    ELSE TrimEnd(SubSeq(s, 1, Len(s) - WsSuffixLen(s)))

\* str::trim
trim(s) == TrimEnd(TrimStart(s))

to_ascii_lowercase(b) == IF b >= 65 /\ b <= 90 THEN b + 32 ELSE b

\* a plausible slip: the names are compared byte for byte
eq_exact_case(a, b) == a = b

eq_ignore_ascii_case(a, b) ==
    /\ Len(a) = Len(b)
    /\ \A i \in 1..Len(a) : to_ascii_lowercase(a[i]) = to_ascii_lowercase(b[i])

\* index of the first byte equal to sep, 0 if there is none
RECURSIVE IndexOf(_, _, _)
IndexOf(s, sep, i) ==
    IF i > Len(s) THEN 0
    ELSE IF s[i] = sep THEN i
    ELSE IndexOf(s, sep, i + 1)

\* slice::splitn(n, |b| b == sep): at most n pieces, the last takes the rest
RECURSIVE splitn(_, _, _)
splitn(s, n, sep) ==
    LET k == IndexOf(s, sep, 1)
    IN  IF n <= 1 \/ k = 0 THEN <<s>>
        ELSE <<SubSeq(s, 1, k - 1)>> \o splitn(SubSeq(s, k + 1, Len(s)), n - 1, sep)

----------------------------------------------------------------------------
(* header.rs: the request header catalog *)

REQ_HEAD_HOST == <<72, 111, 115, 116>>
REQ_HEAD_USER_AGENT == <<85, 115, 101, 114, 45, 65, 103, 101, 110, 116>>
REQ_HEAD_UPGRADE == <<85, 112, 103, 114, 97, 100, 101>>
REQ_HEAD_SEC_WEBSOCKET_KEY ==
    <<83, 101, 99, 45, 87, 101, 98, 83, 111, 99, 107, 101, 116, 45, 75, 101, 121>>
REQ_HEAD_ACCEPT == <<65, 99, 99, 101, 112, 116>>
REQ_HEAD_ACCEPT_LANGUAGE ==
    <<65, 99, 99, 101, 112, 116, 45, 76, 97, 110, 103, 117, 97, 103, 101>>
REQ_HEAD_ACCEPT_ENCODING ==
    <<65, 99, 99, 101, 112, 116, 45, 69, 110, 99, 111, 100, 105, 110, 103>>
REQ_HEAD_REFERER == <<82, 101, 102, 101, 114, 101, 114>>
REQ_HEAD_CONNECTION == <<67, 111, 110, 110, 101, 99, 116, 105, 111, 110>>
REQ_HEAD_UPGRADE_INSECURE_REQUESTS ==
    <<85, 112, 103, 114, 97, 100, 101, 45, 73, 110, 115, 101, 99, 117, 114, 101,
      45, 82, 101, 113, 117, 101, 115, 116, 115>>
REQ_HEAD_IF_MODIFIED_SINCE ==
    <<73, 102, 45, 77, 111, 100, 105, 102, 105, 101, 100, 45, 83, 105, 110, 99, 101>>
REQ_HEAD_IF_NONE_MATCH == <<73, 102, 45, 78, 111, 110, 101, 45, 77, 97, 116, 99, 104>>
REQ_HEAD_CACHE_CONTROL == <<67, 97, 99, 104, 101, 45, 67, 111, 110, 116, 114, 111, 108>>
REQ_HEAD_CONTENT_LENGTH ==
    <<67, 111, 110, 116, 101, 110, 116, 45, 76, 101, 110, 103, 116, 104>>
REQ_HEAD_CONTENT_RANGE == <<67, 111, 110, 116, 101, 110, 116, 45, 82, 97, 110, 103, 101>>
REQ_HEAD_CONTENT_TYPE == <<67, 111, 110, 116, 101, 110, 116, 45, 84, 121, 112, 101>>
REQ_HEAD_CONTENT_ENCODING ==
    <<67, 111, 110, 116, 101, 110, 116, 45, 69, 110, 99, 111, 100, 105, 110, 103>>
REQ_HEAD_CONTENT_LOCATION ==
    <<67, 111, 110, 116, 101, 110, 116, 45, 76, 111, 99, 97, 116, 105, 111, 110>>
REQ_HEAD_CONTENT_LANGUAGE ==
    <<67, 111, 110, 116, 101, 110, 116, 45, 76, 97, 110, 103, 117, 97, 103, 101>>
REQ_HEAD_ETAG == <<69, 84, 97, 103>>

\* the match arms of TryFrom<(&str, &str)> for RequestHeader, in source order
RequestHeaderArms ==
    << <<"Host", REQ_HEAD_HOST>>,
       <<"UserAgent", REQ_HEAD_USER_AGENT>>,
       <<"Upgrade", REQ_HEAD_UPGRADE>>,
       <<"SecWebSocketKey", REQ_HEAD_SEC_WEBSOCKET_KEY>>,
       <<"Accept", REQ_HEAD_ACCEPT>>,
       <<"AcceptLanguage", REQ_HEAD_ACCEPT_LANGUAGE>>,
       <<"AcceptEncoding", REQ_HEAD_ACCEPT_ENCODING>>,
       <<"Referer", REQ_HEAD_REFERER>>,
       <<"Connection", REQ_HEAD_CONNECTION>>,
       <<"UpgradeInsecureRequests", REQ_HEAD_UPGRADE_INSECURE_REQUESTS>>,
       <<"IfModifiedSince", REQ_HEAD_IF_MODIFIED_SINCE>>,
       <<"IfNoneMatch", REQ_HEAD_IF_NONE_MATCH>>,
       <<"CacheControl", REQ_HEAD_CACHE_CONTROL>>,
       <<"ContentRange", REQ_HEAD_CONTENT_RANGE>>,
       <<"ContentType", REQ_HEAD_CONTENT_TYPE>>,
       <<"ContentEncoding", REQ_HEAD_CONTENT_ENCODING>>,
       <<"ContentLocation", REQ_HEAD_CONTENT_LOCATION>>,
       <<"ContentLanguage", REQ_HEAD_CONTENT_LANGUAGE>>,
       <<"ETag", REQ_HEAD_ETAG>>,
       <<"ContentLength", REQ_HEAD_CONTENT_LENGTH>> >>

\* a RequestHeader value: key is used by Other only, num by ContentLength only
RequestHeader(variant, key, val, num) ==
    [variant |-> variant, key |-> key, val |-> val, num |-> num]

NoHeader == RequestHeader("Other", <<>>, <<>>, 0)

\* a plausible slip: the arms compare the name byte for byte
RECURSIVE MatchArmExact(_, _)
MatchArmExact(name, i) ==
    IF i > Len(RequestHeaderArms) THEN 0
    ELSE IF name = RequestHeaderArms[i][2] THEN i
    ELSE MatchArmExact(name, i + 1)

\* index of the first arm whose name matches, 0 for the fallback arm
RECURSIVE MatchArm(_, _)
MatchArm(name, i) ==
    IF i > Len(RequestHeaderArms) THEN 0
    ELSE IF eq_ignore_ascii_case(name, RequestHeaderArms[i][2]) THEN i
    ELSE MatchArm(name, i + 1)

\* the Content-Length arm: atoi(value).ok_or("invalid content-length")? as usize;
\* a panic of atoi is passed on as the error "panic"
ContentLengthFrom(n) ==
    IF n.tag = "None" THEN [ok |-> FALSE, h |-> NoHeader, err |-> "invalid content-length"]
    ELSE IF n.tag = "Panic" THEN [ok |-> FALSE, h |-> NoHeader, err |-> "panic"]
    ELSE [ok |-> TRUE, h |-> RequestHeader("ContentLength", <<>>, <<>>, AsUsize(n.val)),
          err |-> ""]

\* RequestHeader::try_from((name, value))
RequestHeaderTryFrom(name, value) ==
    LET k == MatchArm(name, 1)
    IN  IF k = 0
        THEN [ok |-> TRUE, h |-> RequestHeader("Other", name, value, 0), err |-> ""]
        ELSE IF RequestHeaderArms[k][1] = "ContentLength"
        THEN ContentLengthFrom(atoi(value))
        ELSE [ok |-> TRUE,
              h |-> RequestHeader(RequestHeaderArms[k][1], <<>>, value, 0),
              err |-> ""]

----------------------------------------------------------------------------
(* request.rs *)

GET == <<71, 69, 84>>
POST == <<80, 79, 83, 84>>
PUT == <<80, 85, 84>>
PATCH == <<80, 65, 84, 67, 72>>
DELETE == <<68, 69, 76, 69, 84, 69>>
OPTIONS == <<79, 80, 84, 73, 79, 78, 83>>
HEAD == <<72, 69, 65, 68>>

\* Method::try_from: "" stands for Err("unknown http method")
MethodTryFrom(value) ==
    IF value = GET THEN "GET"
    ELSE IF value = POST THEN "POST"
    ELSE IF value = PUT THEN "PUT"
    ELSE IF value = PATCH THEN "PATCH"
    ELSE IF value = DELETE THEN "DELETE"
    ELSE IF value = OPTIONS THEN "OPTIONS"
    ELSE IF value = HEAD THEN "HEAD"
    ELSE ""

\* the Request that parse starts from
EmptyRequest ==
    [method |-> "GET", path |-> <<>>, host |-> <<>>, content_type |-> None,
     user_agent |-> None, content_length |-> 0, body |-> None,
     header_slice |-> None]

\* Request::parse_request_line: [err, req]
parse_request_line(req, line) ==
    LET words == splitn(line, 3, SP)
        m == MethodTryFrom(words[1])
    IN  IF m = "" THEN [err |-> "unknown http method", req |-> req]
        ELSE [err |-> "",
              req |-> [req EXCEPT !.method = m,
                                  !.path = IF Len(words) >= 2 THEN words[2] ELSE @]]

\* the name and value of a header line: splitn(2, COLON), both sides trimmed
HeaderLineWords(line) ==
    LET words == splitn(line, 2, COLON)
    IN  [header |-> Some(trim(words[1])),
         value |-> IF Len(words) >= 2 THEN Some(trim(words[2])) ELSE None]

\* Request::parse_header_line: [err, req]
parse_header_line(req, line) ==
    LET w == HeaderLineWords(line)
    IN  IF w.value = None THEN [err |-> "", req |-> req]
        ELSE LET r == RequestHeaderTryFrom(w.header[1], w.value[1])
             IN  IF ~r.ok THEN [err |-> r.err, req |-> req]
                 ELSE IF r.h.variant = "ContentLength"
                      THEN [err |-> "", req |-> [req EXCEPT !.content_length = r.h.num]]
                 ELSE IF r.h.variant = "Host"
                      THEN [err |-> "", req |-> [req EXCEPT !.host = r.h.val]]
                 ELSE IF r.h.variant = "ContentType"
                      THEN [err |-> "", req |-> [req EXCEPT !.content_type = Some(r.h.val)]]
                 ELSE IF r.h.variant = "UserAgent"
                      THEN [err |-> "", req |-> [req EXCEPT !.user_agent = Some(r.h.val)]]
                 ELSE [err |-> "", req |-> req]

\* results of Request::parse
ParseOk(req) == [tag |-> "Ok", req |-> req, hint |-> None, err |-> ""]
ParseIncomplete(hint) ==
    [tag |-> "Incomplete", req |-> EmptyRequest, hint |-> hint, err |-> ""]
ParseProtocolError(e) ==
    [tag |-> "ProtocolError", req |-> EmptyRequest, hint |-> None, err |-> e]
\* parse did not return: the arithmetic of atoi panicked
ParsePanic == [tag |-> "Panic", req |-> EmptyRequest, hint |-> None, err |-> "panic"]
\* what `?` makes of the error of a line
ParseLineError(e) == IF e = "panic" THEN ParsePanic ELSE ParseProtocolError(e)

\* a plausible slip: the body takes everything after the blank line
BodySliceToEnd(data, i, cl) ==
    IF i + cl <= Len(data) THEN Some(SubSeq(data, i + 1, Len(data))) ELSE None

\* data.get(i..i + req.content_length)
BodySlice(data, i, cl) ==
    IF i + cl <= Len(data) THEN Some(SubSeq(data, i + 1, i + cl)) ELSE None

\* the locals of Request::parse before its loop
ParseStart ==
    [req |-> EmptyRequest, request_line_done |-> FALSE, http_headers_done |-> FALSE,
     header_start_offset |-> 0, header_end_offset |-> 0, line_start |-> 0,
     ret |-> None]

\* the loop `for i in 0..=data.len()` of Request::parse; ret is Some(result)
\* when the loop body returned
RECURSIVE ParseLoop(_, _, _)
ParseLoop(data, i, st) ==
    IF i > Len(data) THEN st
    ELSE LET cur == SubSeq(data, st.line_start + 1, i)
             n == Len(cur)
         IN  IF cur = <<CR, LF>>
             THEN LET cl == st.req.content_length
                  IN  IF cl > 0
                      THEN IF BodySlice(data, i, cl) # None
                           THEN [st EXCEPT !.http_headers_done = TRUE,
                                           !.req.body = BodySlice(data, i, cl)]
                           ELSE [st EXCEPT !.http_headers_done = TRUE,
                                           !.ret = Some(ParseIncomplete(Some(cl)))]
                      ELSE [st EXCEPT !.http_headers_done = TRUE]
             ELSE IF n >= 2 /\ cur[n - 1] = CR /\ cur[n] = LF
             THEN LET line == SubSeq(cur, 1, n - 2)
                  IN  IF ~st.request_line_done
                      THEN LET r == parse_request_line(st.req, line)
                           IN  IF r.err # ""
                               THEN [st EXCEPT !.ret = Some(ParseLineError(r.err))]
                               ELSE ParseLoop(data, i + 1,
                                        [st EXCEPT !.req = r.req,
                                                   !.request_line_done = TRUE,
                                                   !.line_start = i])
                      ELSE LET r == parse_header_line(st.req, line)
                           IN  IF r.err # ""
                               THEN [st EXCEPT !.ret = Some(ParseLineError(r.err))]
                               ELSE ParseLoop(data, i + 1,
                                        [st EXCEPT !.req = r.req,
                                                   !.header_start_offset =
                                                       IF @ = 0 THEN st.line_start ELSE @,
                                                   !.header_end_offset = i,
                                                   !.line_start = i])
             ELSE ParseLoop(data, i + 1, st)

\* Request::parse
RequestParse(data) ==
    IF ~from_utf8_ok(data)
    THEN ParseProtocolError("http request is not valid utf8")
    ELSE LET st == ParseLoop(data, 0, ParseStart)
             req == [st.req EXCEPT !.header_slice =
                        IF st.header_start_offset # 0 /\ st.header_end_offset # 0
                        THEN Some(SubSeq(data, st.header_start_offset + 1,
                                         st.header_end_offset))
                        ELSE None]
         IN  IF st.ret # None THEN st.ret[1]
             ELSE IF ~st.http_headers_done THEN ParseIncomplete(None)
             ELSE IF req.path = <<>> THEN ParseProtocolError("malformed HTTP request")
             ELSE ParseOk(req)

\* Request::resolve_header: Some(header), or None for a line without a
\* colon or with an invalid Content-Length (get_header ignores both)
resolve_header(line) ==
    LET w == HeaderLineWords(line)
    IN  IF w.value = None THEN None
        ELSE LET r == RequestHeaderTryFrom(w.header[1], w.value[1])
             IN  IF r.ok THEN Some(r.h) ELSE None

\* a plausible slip: the discriminants alone are compared
HeaderMatchesByDiscriminant(query, h) == query.variant = h.variant

\* the match of Request::get_header: Other against Other by name ignoring
\* case, anything else by discriminant
HeaderMatches(query, h) ==
    IF query.variant = "Other" /\ h.variant = "Other"
    THEN eq_ignore_ascii_case(query.key, h.key)
    ELSE query.variant = h.variant

\* the loop `for i in 0..=data.len()` of Request::get_header
RECURSIVE GetHeaderLoop(_, _, _, _)
GetHeaderLoop(data, query, line_start, i) ==
    IF i > Len(data) THEN None
    ELSE LET cur == SubSeq(data, line_start + 1, i)
             n == Len(cur)
         IN  IF n >= 2 /\ cur[n - 1] = CR /\ cur[n] = LF
             THEN LET h == resolve_header(SubSeq(cur, 1, n - 2))
                  IN  IF h # None /\ HeaderMatches(query, h[1]) THEN h
                      ELSE GetHeaderLoop(data, query, i, i + 1)
             ELSE GetHeaderLoop(data, query, line_start, i + 1)

\* Request::get_header
get_header(req, query) ==
    IF req.header_slice = None THEN None
    ELSE GetHeaderLoop(req.header_slice[1], query, 0, 0)

----------------------------------------------------------------------------
(* ascii.rs: AsciiInt *)

\* the loop of From<u64> for AsciiInt: (int, rem) = divmod10(int);
\* ret_array[19 - round] = rem + ZERO; until int == 0
RECURSIVE AsciiIntFill(_, _, _)
AsciiIntFill(ret_array, int, round) ==
    LET d == DivSmall(int, 10, 1, <<>>, 0)
        filled == [ret_array EXCEPT ![20 - round] = d.rem + ZERO]
    IN  IF IsZero(d.q) THEN filled
        ELSE AsciiIntFill(filled, d.q, round + 1)

\* AsciiInt::from(value) for a u64: 20 bytes, right-justified, padded with SP
AsciiIntFrom(value) == AsciiIntFill([i \in 1..20 |-> SP], value, 0)

\* a plausible slip: the 20 bytes are returned as they are
AsciiIntAsStrNoTrim(a) == a

\* AsciiInt::as_str
AsciiIntAsStr(a) == trim(a)

----------------------------------------------------------------------------
(* header.rs: response headers *)

RESP_HEAD_ACCESS_CONTROL_ALLOW_ORIGIN ==
    <<65, 99, 99, 101, 115, 115, 45, 67, 111, 110, 116, 114, 111, 108, 45, 65, 108, 108, 111, 119, 45, 79, 114, 105, 103, 105, 110>>
RESP_HEAD_CONNECTION ==
    <<67, 111, 110, 110, 101, 99, 116, 105, 111, 110>>
RESP_HEAD_DATE ==
    <<68, 97, 116, 101>>
RESP_HEAD_KEEP_ALIVE ==
    <<75, 101, 101, 112, 45, 65, 108, 105, 118, 101>>
RESP_HEAD_LAST_MODIFIED ==
    <<76, 97, 115, 116, 45, 77, 111, 100, 105, 102, 105, 101, 100>>
RESP_HEAD_SERVER ==
    <<83, 101, 114, 118, 101, 114>>
RESP_HEAD_SET_COOKIE ==
    <<83, 101, 116, 45, 67, 111, 111, 107, 105, 101>>
RESP_HEAD_TRANSFER_ENCODING ==
    <<84, 114, 97, 110, 115, 102, 101, 114, 45, 69, 110, 99, 111, 100, 105, 110, 103>>
RESP_HEAD_VARY ==
    <<86, 97, 114, 121>>
RESP_HEAD_CONTENT_LENGTH ==
    <<67, 111, 110, 116, 101, 110, 116, 45, 76, 101, 110, 103, 116, 104>>
RESP_HEAD_CONTENT_RANGE ==
    <<67, 111, 110, 116, 101, 110, 116, 45, 82, 97, 110, 103, 101>>
RESP_HEAD_CONTENT_TYPE ==
    <<67, 111, 110, 116, 101, 110, 116, 45, 84, 121, 112, 101>>
RESP_HEAD_CONTENT_ENCODING ==
    <<67, 111, 110, 116, 101, 110, 116, 45, 69, 110, 99, 111, 100, 105, 110, 103>>
RESP_HEAD_CONTENT_LOCATION ==
    <<67, 111, 110, 116, 101, 110, 116, 45, 76, 111, 99, 97, 116, 105, 111, 110>>
RESP_HEAD_CONTENT_LANGUAGE ==
    <<67, 111, 110, 116, 101, 110, 116, 45, 76, 97, 110, 103, 117, 97, 103, 101>>
RESP_HEAD_ETAG ==
    <<69, 84, 97, 103>>
RESP_HEAD_SEC_WEBSOCKET_ACCEPT ==
    <<83, 101, 99, 45, 87, 101, 98, 83, 111, 99, 107, 101, 116, 45, 65, 99, 99, 101, 112, 116>>

ResponseHeaderNames ==
    << <<"AccessControlAllowOrigin", RESP_HEAD_ACCESS_CONTROL_ALLOW_ORIGIN>>,
       <<"Connection", RESP_HEAD_CONNECTION>>,
       <<"Date", RESP_HEAD_DATE>>,
       <<"KeepAlive", RESP_HEAD_KEEP_ALIVE>>,
       <<"LastModified", RESP_HEAD_LAST_MODIFIED>>,
       <<"Server", RESP_HEAD_SERVER>>,
       <<"SetCookie", RESP_HEAD_SET_COOKIE>>,
       <<"TransferEncoding", RESP_HEAD_TRANSFER_ENCODING>>,
       <<"Vary", RESP_HEAD_VARY>>,
       <<"ContentLength", RESP_HEAD_CONTENT_LENGTH>>,
       <<"ContentRange", RESP_HEAD_CONTENT_RANGE>>,
       <<"ContentType", RESP_HEAD_CONTENT_TYPE>>,
       <<"ContentEncoding", RESP_HEAD_CONTENT_ENCODING>>,
       <<"ContentLocation", RESP_HEAD_CONTENT_LOCATION>>,
       <<"ContentLanguage", RESP_HEAD_CONTENT_LANGUAGE>>,
       <<"ETag", RESP_HEAD_ETAG>>,
       <<"SecWebSocketAccept", RESP_HEAD_SEC_WEBSOCKET_ACCEPT>> >>

\* a ResponseHeader value: key is used by Other only, num by ContentLength only
ResponseHeader(variant, key, val, num) ==
    [variant |-> variant, key |-> key, val |-> val, num |-> num]

\* the name ResponseHeader::write writes first
ResponseHeaderName(h) ==
    IF h.variant = "Other" THEN h.key
    ELSE LET k == CHOOSE i \in 1..Len(ResponseHeaderNames) :
                      ResponseHeaderNames[i][1] = h.variant
         IN  ResponseHeaderNames[k][2]

\* the value text ResponseHeader::write writes after ": "
ResponseHeaderVal(h) ==
    IF h.variant = "ContentLength" THEN AsciiIntAsStr(AsciiIntFrom(U64(h.num)))
    ELSE h.val

----------------------------------------------------------------------------
(* The stream (embedded_io_async::Write).  Within one Responder operation   *)
(* the k-th write_all fails iff k is in the fault plan F.  A failed         *)
(* write_all is taken to deliver none of its bytes.  write_all of an empty  *)
(* slice makes no write and succeeds.  write_all does not flush: the bytes  *)
(* a stream has accepted stay in `unflushed` until a flush of the stream,   *)
(* and no operation of response.rs or header.rs calls one.                  *)

StreamAt(wlog, out, F) ==
    [wlog |-> wlog, out |-> out, unflushed |-> <<>>, k |-> 0, F |-> F, ok |-> TRUE]

write_all(s, data, kind) ==
    CHOOSE r \in
        { IF data = <<>> THEN [t EXCEPT !.ok = TRUE]
          ELSE [t EXCEPT !.k = @ + 1,
                         !.wlog = Append(@, [data |-> data, ok |-> (t.k + 1) \notin t.F,
                                             kind |-> kind]),
                         !.out = IF (t.k + 1) \notin t.F THEN @ \o data ELSE @,
                         !.unflushed = IF (t.k + 1) \notin t.F THEN @ \o data ELSE @,
                         !.ok = (t.k + 1) \notin t.F] : t \in {s} } : TRUE

----------------------------------------------------------------------------
(* response.rs *)

HTTP_PROTO == <<72, 84, 84, 80, 47, 49, 46, 49>>

StatusCode(kind, n) == [kind |-> kind, n |-> n]
StatusOK == StatusCode("OK", 0)

\* the text StatusCode::write puts after "HTTP/1.1 "
StatusData(status) ==
    CASE status.kind = "SwitchingProtocols" ->
            <<49, 48, 49, 32, 83, 119, 105, 116, 99, 104, 105, 110, 103, 32,
              80, 114, 111, 116, 111, 99, 111, 108, 115>>
      [] status.kind = "OK" -> <<50, 48, 48, 32, 79, 75>>
      [] status.kind = "BadRequest" ->
            <<52, 48, 48, 32, 66, 97, 100, 32, 82, 101, 113, 117, 101, 115, 116>>
      [] status.kind = "NotFound" ->
            <<52, 48, 52, 32, 78, 111, 116, 32, 70, 111, 117, 110, 100>>
      [] status.kind = "InternalServerError" ->
            <<53, 48, 48, 32, 73, 110, 116, 101, 114, 110, 97, 108, 32, 83,
              101, 114, 118, 101, 114, 32, 69, 114, 114, 111, 114>>
      [] status.kind = "Other" -> AsciiIntAsStr(AsciiIntFrom(U64(status.n)))

\* StatusCode::write: a.and(b.and(c.and(d))) evaluates its arguments eagerly,
\* so the four write_all calls are all made, whatever the earlier ones returned
StatusCodeWrite(s, status) ==
    LET s1 == write_all(s, HTTP_PROTO, "status")
        s2 == write_all(s1, <<SP>>, "status")
        s3 == write_all(s2, StatusData(status), "status")
        s4 == write_all(s3, CRLF, "status")
    IN  [s4 EXCEPT !.ok = s1.ok /\ s2.ok /\ s3.ok /\ s4.ok]

\* ResponseHeader::write: ContentLength(0) writes nothing; the name is written
\* with `?`; the writes of ": ", the value and CR LF are chained with `.and`
\* and are all made
ResponseHeaderWrite(s, h) ==
    IF h.variant = "ContentLength" /\ h.num = 0 THEN [s EXCEPT !.ok = TRUE]
    ELSE LET s1 == write_all(s, ResponseHeaderName(h), "header")
             s2 == write_all(s1, <<COLON, SP>>, "header")
             s3 == write_all(s2, ResponseHeaderVal(h), "header")
             s4 == write_all(s3, CRLF, "header")
         IN  IF ~s1.ok THEN s1
             ELSE [s4 EXCEPT !.ok = s2.ok /\ s3.ok /\ s4.ok]

\* a plausible slip: the Server header is written whatever its value
InnerWithStatusAlwaysServer(s, server, status) ==
    LET s1 == StatusCodeWrite(s, status)
    IN  IF ~s1.ok THEN s1
        ELSE ResponseHeaderWrite(s1, ResponseHeader("Server", <<>>, server, 0))

\* ResponderInner::with_status
InnerWithStatus(s, server, status) ==
    LET s1 == StatusCodeWrite(s, status)
    IN  IF ~s1.ok THEN s1
        ELSE IF server # <<>>
             THEN ResponseHeaderWrite(s1, ResponseHeader("Server", <<>>, server, 0))
             ELSE s1

\* ResponderInner::with_header
InnerWithHeader(s, h) == ResponseHeaderWrite(s, h)

\* ResponderInner::no_body
InnerNoBody(s) == write_all(s, CRLF, "blank")

\* ResponderInner::with_body
InnerWithBody(s, body) ==
    LET s1 == ResponseHeaderWrite(s, ResponseHeader("ContentLength", <<>>, <<>>, Len(body)))
        s2 == write_all(s1, CRLF, "blank")
        s3 == write_all(s2, body, "body")
    IN  IF ~s1.ok THEN s1
        ELSE IF ~s2.ok THEN s2
        ELSE s3

\* a plausible slip: the header is written without the default status line
ResponderWithHeaderNoStatus(s, server, status, h) == InnerWithHeader(s, h)

\* Responder::with_header (the Initial state): the stored status first
ResponderWithHeader(s, server, status, h) ==
    LET s1 == InnerWithStatus(s, server, status)
    IN  IF ~s1.ok THEN s1 ELSE ResponseHeaderWrite(s1, h)

----------------------------------------------------------------------------
(* websocket.rs: sec_websocket_accept_val.  Sha1 is the SHA-1 of FIPS 180-4 *)
(* that the sha1 crate computes, on words of 4 bytes.  Base64 is the        *)
(* standard alphabet with padding.                                          *)

SEC_WEBSOCKET_ACCEPT_MAGIC ==
    <<50, 53, 56, 69, 65, 70, 65, 53, 45, 69, 57, 49, 52, 45, 52, 55, 68, 65, 45,
      57, 53, 67, 65, 45, 67, 53, 65, 66, 48, 68, 67, 56, 53, 66, 49, 49>>

\* bitwise and of two 4-bit values, and of two bytes
AndNibble == [a \in 0..15 |-> [b \in 0..15 |->
    (((a \div 8) * (b \div 8)) * 8) + ((((a \div 4) % 2) * ((b \div 4) % 2)) * 4)
        + ((((a \div 2) % 2) * ((b \div 2) % 2)) * 2) + ((a % 2) * (b % 2))]]
AndByte(a, b) == (AndNibble[a \div 16][b \div 16] * 16) + AndNibble[a % 16][b % 16]
XorByte(a, b) == (a + b) - (2 * AndByte(a, b))
OrByte(a, b) == (a + b) - AndByte(a, b)

\* 32-bit words are 4 bytes, most significant first
WordAnd(x, y) == <<AndByte(x[1], y[1]), AndByte(x[2], y[2]), AndByte(x[3], y[3]), AndByte(x[4], y[4])>>
WordOr(x, y) == <<OrByte(x[1], y[1]), OrByte(x[2], y[2]), OrByte(x[3], y[3]), OrByte(x[4], y[4])>>
WordXor(x, y) == <<XorByte(x[1], y[1]), XorByte(x[2], y[2]), XorByte(x[3], y[3]), XorByte(x[4], y[4])>>
WordNot(x) == <<255 - x[1], 255 - x[2], 255 - x[3], 255 - x[4]>>

\* x.rotate_left(k) for 0 < k < 8, and for the k of SHA-1: 1, 5, 30
RotlBits(x, k, p) ==
    << ((x[1] * p) % 256) + (x[2] \div (256 \div p)),
       ((x[2] * p) % 256) + (x[3] \div (256 \div p)),
       ((x[3] * p) % 256) + (x[4] \div (256 \div p)),
       ((x[4] * p) % 256) + (x[1] \div (256 \div p)) >>
Rotl1(x) == RotlBits(x, 1, 2)
Rotl5(x) == RotlBits(x, 5, 32)
Rotl30(x) == RotlBits(<<x[4], x[1], x[2], x[3]>>, 6, 64)

\* a.wrapping_add(b).wrapping_add(c).wrapping_add(d).wrapping_add(e)
WordAdd5(a, b, c, d, e) ==
    LET s4 == a[4] + b[4] + c[4] + d[4] + e[4]
        s3 == a[3] + b[3] + c[3] + d[3] + e[3] + (s4 \div 256)
        s2 == a[2] + b[2] + c[2] + d[2] + e[2] + (s3 \div 256)
        s1 == a[1] + b[1] + c[1] + d[1] + e[1] + (s2 \div 256)
    IN  <<s1 % 256, s2 % 256, s3 % 256, s4 % 256>>
WordZero == <<0, 0, 0, 0>>
WordAdd(a, b) == WordAdd5(a, b, WordZero, WordZero, WordZero)

\* FIPS 180-4, SHA-1: the round functions and constants
Sha1F(t, b, c, d) ==
    IF t < 20 THEN WordOr(WordAnd(b, c), WordAnd(WordNot(b), d))
    ELSE IF t < 40 THEN WordXor(WordXor(b, c), d)
    ELSE IF t < 60 THEN WordOr(WordOr(WordAnd(b, c), WordAnd(b, d)), WordAnd(c, d))
    ELSE WordXor(WordXor(b, c), d)
Sha1K(t) ==
    IF t < 20 THEN <<90, 130, 121, 153>>          \* 5A827999
    ELSE IF t < 40 THEN <<110, 217, 235, 161>>    \* 6ED9EBA1
    ELSE IF t < 60 THEN <<143, 27, 188, 220>>     \* 8F1BBCDC
    ELSE <<202, 98, 193, 214>>                    \* CA62C1D6
Sha1Init ==
    << <<103, 69, 35, 1>>, <<239, 205, 171, 137>>, <<152, 186, 220, 254>>,
       <<16, 50, 84, 118>>, <<195, 210, 225, 240>> >>

\* the message with the bit 1, zeros up to 56 mod 64, and its length in bits
\* as 8 bytes
Sha1Pad(data) ==
    data \o <<128>> \o [i \in 1..((119 - (Len(data) % 64)) % 64) |-> 0]
         \o <<0, 0, 0, 0>> \o ToBeBytes(Len(data) * 8, 4)

\* the message schedule of a 64-byte block, from the words w already there
\* up to n words: the 16 words of the block, then
\* (w[t-3] ^ w[t-8] ^ w[t-14] ^ w[t-16]).rotate_left(1)
Sha1NextWord(w, block) ==
    IF Len(w) < 16 THEN SubSeq(block, (4 * Len(w)) + 1, (4 * Len(w)) + 4)
    ELSE Rotl1(WordXor(WordXor(w[Len(w) - 2], w[Len(w) - 7]),
                       WordXor(w[Len(w) - 13], w[Len(w) - 15])))
RECURSIVE Sha1Schedule(_, _, _)
Sha1Schedule(w, block, n) ==
    IF n <= Len(w) THEN w
    ELSE IF n = Len(w) + 1 THEN Append(w, Sha1NextWord(w, block))
    ELSE CHOOSE r \in
        { Sha1Schedule(half, block, n) :
            half \in { Sha1Schedule(w, block, Len(w) + ((n - Len(w)) \div 2)) } } : TRUE

\* one round on the working variables v = <<a, b, c, d, e>>
Sha1Round(v, w, t) ==
    << WordAdd5(Rotl5(v[1]), Sha1F(t, v[2], v[3], v[4]), v[5], Sha1K(t), w[t + 1]),
       v[1], Rotl30(v[2]), v[3], v[4] >>

\* rounds t..(n - 1) in order
RECURSIVE Sha1Rounds(_, _, _, _)
Sha1Rounds(v, w, t, n) ==
    IF n <= t THEN v
    ELSE IF n = t + 1 THEN Sha1Round(v, w, t)
    ELSE CHOOSE r \in
        { Sha1Rounds(half, w, t + ((n - t) \div 2), n) :
            half \in { Sha1Rounds(v, w, t, t + ((n - t) \div 2)) } } : TRUE

\* the compression of the blocks of data from byte offset at on, from hash h
RECURSIVE Sha1Blocks(_, _, _)
Sha1Blocks(h, data, at) ==
    IF at >= Len(data) THEN h
    ELSE CHOOSE r \in
        { Sha1Blocks(<<WordAdd(h[1], v[1]), WordAdd(h[2], v[2]), WordAdd(h[3], v[3]),
                       WordAdd(h[4], v[4]), WordAdd(h[5], v[5])>>, data, at + 64) :
            v \in { Sha1Rounds(h, w, 0, 80) :
                        w \in { Sha1Schedule(<<>>, SubSeq(data, at + 1, at + 64), 80) } } } : TRUE

\* Sha1::new(), update(data), finalize(): the 20-byte digest
Sha1(data) ==
    CHOOSE r \in { h[1] \o h[2] \o h[3] \o h[4] \o h[5] :
                      h \in { Sha1Blocks(Sha1Init, Sha1Pad(data), 0) } } : TRUE

Base64Char(v) ==
    IF v < 26 THEN 65 + v
    ELSE IF v < 52 THEN 97 + (v - 26)
    ELSE IF v < 62 THEN 48 + (v - 52)
    ELSE IF v = 62 THEN 43 ELSE 47

RECURSIVE Base64Encode(_)
Base64Encode(b) ==
    IF Len(b) = 0 THEN <<>>
    ELSE IF Len(b) = 1
    THEN <<Base64Char(b[1] \div 4), Base64Char((b[1] % 4) * 16), 61, 61>>
    ELSE IF Len(b) = 2
    THEN <<Base64Char(b[1] \div 4), Base64Char((b[1] % 4) * 16 + b[2] \div 16),
           Base64Char((b[2] % 16) * 4), 61>>
    ELSE <<Base64Char(b[1] \div 4), Base64Char((b[1] % 4) * 16 + b[2] \div 16),
           Base64Char((b[2] % 16) * 4 + b[3] \div 64), Base64Char(b[3] % 64)>>
         \o Base64Encode(SubSeq(b, 4, Len(b)))

\* sec_websocket_accept_val(key): Ok([u8; 28]) or Err when the encoding does
\* not fit the 28 bytes
AcceptValFrom(key_hash) ==
    CHOOSE r \in
        { IF Len(e) > 28
          THEN [ok |-> FALSE, val |-> <<>>,
                err |-> "error enoding key hash due to invalid length"]
          ELSE [ok |-> TRUE, val |-> e \o [i \in 1..(28 - Len(e)) |-> 0], err |-> ""] :
              e \in { Base64Encode(key_hash) } } : TRUE

\* a plausible slip: the key alone is hashed
sec_websocket_accept_val_key_only(key) == AcceptValFrom(Sha1(key))

sec_websocket_accept_val(key) == AcceptValFrom(Sha1(key \o SEC_WEBSOCKET_ACCEPT_MAGIC))

\* the query Responder::upgrade makes: RequestHeader::SecWebSocketKey("")
SecWebSocketKeyQuery == RequestHeader("SecWebSocketKey", <<>>, <<>>, 0)

UpgradeResult(s, result) == [s |-> s, result |-> result]

\* `first.await?` followed by next: next runs on the stream as first left it,
\* and only when first succeeded
Try(s, next(_)) == CHOOSE r \in { IF x.ok THEN next(x) ELSE x : x \in {s} } : TRUE

\* the end of upgrade on stream s: NetworkError when a write failed
UpgradeEnd(s, result) ==
    CHOOSE r \in { UpgradeResult(x, IF x.ok THEN result ELSE "NetworkError") : x \in {s} } : TRUE

\* a plausible slip: the 400 response is left without its blank line
UpgradeRejectNoBlank(s, server, e) ==
    UpgradeEnd(InnerWithStatus(s, server, StatusCode("BadRequest", 0)), e)

\* the two error arms of Responder::upgrade: 400, no body, ProtocolError
UpgradeReject(s, server, e) ==
    UpgradeEnd(Try(InnerWithStatus(s, server, StatusCode("BadRequest", 0)),
                   LAMBDA x : InnerNoBody(x)),
               e)

\* ResponderInner::websocket
InnerWebsocket(s) == write_all(s, CRLF, "blank")

\* the success path of Responder::upgrade
UpgradeAccept(s, server, accept_key) ==
    UpgradeEnd(
        Try(Try(Try(Try(InnerWithStatus(s, server, StatusCode("SwitchingProtocols", 0)),
                        LAMBDA x : InnerWithHeader(x, ResponseHeader("SecWebSocketAccept", <<>>,
                                                                     accept_key, 0))),
                    LAMBDA x : InnerWithHeader(x, ResponseHeader("Other",
                                   <<85, 112, 103, 114, 97, 100, 101>>,
                                   <<119, 101, 98, 115, 111, 99, 107, 101, 116>>, 0))),
                LAMBDA x : InnerWithHeader(x, ResponseHeader("Connection", <<>>,
                                   <<85, 112, 103, 114, 97, 100, 101>>, 0))),
            LAMBDA x : InnerWebsocket(x)),
        "Websocket")

\* Responder::upgrade: the header looked up and the accept token are each
\* computed once
ResponderUpgrade(s, server, req) ==
    CHOOSE r \in
        { IF k = None \/ k[1].variant # "SecWebSocketKey"
          THEN UpgradeReject(s, server, "ProtocolError")
          ELSE CHOOSE r2 \in
                   { IF ~a.ok THEN UpgradeReject(s, server, "ProtocolError")
                     ELSE UpgradeAccept(s, server, a.val) :
                       a \in { sec_websocket_accept_val(k[1].val) } } : TRUE :
            k \in { get_header(req, SecWebSocketKeyQuery) } } : TRUE

----------------------------------------------------------------------------
(* websocket.rs: WebsocketFrame.  A length (u64, and usize on a 64-bit      *)
(* target) is its 8 big-endian bytes, so that every 64-bit value is exact.  *)

\* bitwise exclusive or of two bytes
RECURSIVE Xor(_, _)
Xor(a, b) ==
    IF a = 0 THEN b
    ELSE IF b = 0 THEN a
    ELSE ((a + b) % 2) + 2 * Xor(a \div 2, b \div 2)

\* `b as u64` for a byte string of at most 8 bytes, big-endian
U64FromBe(b) == [i \in 1..(8 - Len(b)) |-> 0] \o b

\* a u64 below 2^24, and its value
U64IsSmall(a) == SubSeq(a, 1, 5) = <<0, 0, 0, 0, 0>>
U64ToInt(a) == FromBeBytes(SubSeq(a, 6, 8))

\* a <= n and a > n for a u64 a and 0 <= n < 2^24
U64Le(a, n) == U64IsSmall(a) /\ U64ToInt(a) <= n
U64Gt(a, n) == ~U64Le(a, n)

WebsocketFrame(fin, opcode, masked, len, mask) ==
    [fin |-> fin, opcode |-> opcode, masked |-> masked, len |-> len, mask |-> mask]

NoFrame == WebsocketFrame(FALSE, 0, FALSE, U64(0), None)

DecodeOk(frame) == [tag |-> "Ok", frame |-> frame, n |-> 0, err |-> ""]
InsufficientData(n) == [tag |-> "InsufficientData", frame |-> NoFrame, n |-> n, err |-> ""]
Unsupported(e) == [tag |-> "Unsupported", frame |-> NoFrame, n |-> 0, err |-> e]

\* WebsocketFrame::decode.  The 64-bit tier is entered on `len == 127`,
\* where len is what the 16-bit tier has just assigned.
decode(value) ==
    IF Len(value) < 2 THEN InsufficientData(2 - Len(value))
    ELSE
    LET fin == value[1] >= 128
        opcode == value[1] % 16
        masked == value[2] >= 128
        len7 == value[2] % 128
        tier16 == len7 = 126
        req16 == IF tier16 THEN 4 ELSE 2
        len16 == IF tier16 THEN U64FromBe(SubSeq(value, 3, 4)) ELSE U64(len7)
        tier64 == len16 = U64(127)
        req64 == IF tier64 THEN req16 + 8 ELSE req16
        len == IF tier64 THEN U64FromBe(SubSeq(value, 3, 10)) ELSE len16
        mask_offset == IF tier64 THEN 10 ELSE IF tier16 THEN 4 ELSE 2
        req == IF masked THEN req64 + 4 ELSE req64
    IN  IF ~fin \/ opcode = 0 THEN Unsupported("payload fragmentation not supported")
        ELSE IF tier16 /\ Len(value) < req16 THEN InsufficientData(req16 - Len(value))
        ELSE IF tier64 /\ Len(value) < req64 THEN InsufficientData(req64 - Len(value))
        ELSE IF masked /\ Len(value) < req THEN InsufficientData(req - Len(value))
        ELSE DecodeOk(WebsocketFrame(fin, opcode, masked, len,
                 IF masked THEN Some(SubSeq(value, mask_offset + 1, mask_offset + 4))
                 ELSE None))

EncodeOk(n, dest) == [ok |-> TRUE, n |-> n, dest |-> dest]
EncodeErr(dest) == [ok |-> FALSE, n |-> 0, dest |-> dest]

\* dest with the bytes of b xor-ed in from index at (0-based)
XorInto(dest, at, b) ==
    [i \in 1..Len(dest) |->
        IF i > at /\ i <= at + Len(b) THEN Xor(dest[i], b[i - at]) ELSE dest[i]]

\* dest with the bytes of b stored from index at (0-based)
StoreInto(dest, at, b) ==
    [i \in 1..Len(dest) |->
        IF i > at /\ i <= at + Len(b) THEN b[i - at] ELSE dest[i]]

\* WebsocketFrame::encode; dest is long enough for a mask when there is one
encode(f, dest) ==
    IF Len(dest) < 2 THEN EncodeErr(dest)
    ELSE
    LET d1 == XorInto(dest, 0, <<IF f.fin THEN 128 ELSE 0>>)
        d2 == XorInto(d1, 0, <<f.opcode % 16>>)
        d3 == XorInto(d2, 1, <<IF f.masked THEN 128 ELSE 0>>)
        t7 == U64Le(f.len, 125)
        d4 == IF t7 THEN XorInto(d3, 1, <<f.len[8]>>) ELSE d3
        t16 == ~t7 /\ U64Le(f.len, 65535)
        d5 == IF t16 THEN StoreInto(XorInto(d4, 1, <<126>>), 2, SubSeq(f.len, 7, 8))
              ELSE d4
        t64 == U64Gt(f.len, 65535)
        d6 == IF t64 THEN StoreInto(XorInto(d5, 1, <<127>>), 2, f.len) ELSE d5
        mask_offset == IF t64 THEN 10 ELSE IF t16 THEN 4 ELSE 2
    IN  IF t16 /\ Len(dest) < 4 THEN EncodeErr(d4)
        ELSE IF t64 /\ Len(dest) < 10 THEN EncodeErr(d5)
        ELSE IF f.mask # None
        THEN EncodeOk(mask_offset + 4, XorInto(d6, mask_offset, f.mask[1]))
        ELSE EncodeOk(mask_offset, d6)

\* apply_mask adding the mask bytes (mod 256) where the code xors them
apply_mask_add(f, data) ==
    IF f.mask = None THEN data
    ELSE [i \in 1..Len(data) |-> (data[i] + f.mask[1][((i - 1) % 4) + 1]) % 256]

\* WebsocketFrame::apply_mask on data = buf[..len]
apply_mask(f, data) ==
    IF f.mask = None THEN data
    ELSE [i \in 1..Len(data) |-> Xor(data[i], f.mask[1][((i - 1) % 4) + 1])]

----------------------------------------------------------------------------
(* websocket.rs: Websocket over a stream of bytes the client has sent.  A   *)
(* read_exact that finds too few bytes takes what there is and fails.       *)

ReadExact(stream, n) ==
    IF Len(stream) >= n
    THEN [ok |-> TRUE, bytes |-> SubSeq(stream, 1, n),
          rest |-> SubSeq(stream, n + 1, Len(stream))]
    ELSE [ok |-> FALSE, bytes |-> stream, rest |-> <<>>]

ReceiveResult(tag, frame, stream, buf) ==
    [tag |-> tag, frame |-> frame, stream |-> stream, buf |-> buf]

\* the loop of Websocket::receive: decode header_buf[..offset], read the
\* bytes decode asks for into header_buf[offset..offset + n]
RECURSIVE ReceiveHeader(_, _, _, _)
ReceiveHeader(stream, header_buf, offset, buf) ==
    LET d == decode(SubSeq(header_buf, 1, offset))
        r == ReadExact(stream, d.n)
    IN  IF d.tag = "Ok" THEN ReceiveResult("Ok", d.frame, stream, buf)
        ELSE IF d.tag = "Unsupported" THEN ReceiveResult("Unsupported", NoFrame, stream, buf)
        ELSE IF offset + d.n > Len(header_buf)
        THEN ReceiveResult("Panic", NoFrame, stream, buf)
        ELSE IF ~r.ok THEN ReceiveResult("NetworkError", NoFrame, r.rest, buf)
        ELSE ReceiveHeader(r.rest, StoreInto(header_buf, offset, r.bytes), offset + d.n, buf)

\* the first read of receive: read_exact(&mut header_buf[..6])
ReceiveFirstRead == 6

\* Websocket::receive
receive(stream, buf) ==
    LET r0 == ReadExact(stream, ReceiveFirstRead)
        h == ReceiveHeader(r0.rest, StoreInto([i \in 1..14 |-> 0], 0, r0.bytes),
                           ReceiveFirstRead, buf)
        n == U64ToInt(h.frame.len)
        p == ReadExact(h.stream, n)
        got == StoreInto(buf, 0, p.bytes)
    IN  IF ~r0.ok THEN ReceiveResult("NetworkError", NoFrame, r0.rest, buf)
        ELSE IF h.tag # "Ok" THEN h
        ELSE IF U64Gt(h.frame.len, Len(buf))
        THEN ReceiveResult("Unsupported", NoFrame, h.stream, buf)
        ELSE IF ~p.ok THEN ReceiveResult("NetworkError", NoFrame, p.rest, got)
        ELSE IF h.frame.masked
        THEN ReceiveResult("Ok", h.frame, p.rest,
                           StoreInto(got, 0, apply_mask(h.frame, SubSeq(got, 1, n))))
        ELSE ReceiveResult("Ok", h.frame, p.rest, got)

SendResult(s, result) == [s |-> s, result |-> result]

\* a plausible slip: the data is written before the header
sendDataFirst(s, data) ==
    LET e == encode(WebsocketFrame(TRUE, 2, FALSE, U64(Len(data)), None), [i \in 1..14 |-> 0])
        s1 == write_all(s, data, "frame_data")
        s2 == write_all(s1, SubSeq(e.dest, 1, e.n), "frame_header")
    IN  IF ~s1.ok THEN SendResult(s1, "NetworkError")
        ELSE IF ~s2.ok THEN SendResult(s2, "NetworkError")
        ELSE SendResult(s2, "Ok")

\* Websocket::send
send(s, data) ==
    LET e == encode(WebsocketFrame(TRUE, 2, FALSE, U64(Len(data)), None), [i \in 1..14 |-> 0])
        s1 == write_all(s, SubSeq(e.dest, 1, e.n), "frame_header")
        s2 == write_all(s1, data, "frame_data")
    IN  IF ~e.ok THEN SendResult(s, "Unsupported")
        ELSE IF ~s1.ok THEN SendResult(s1, "NetworkError")
        ELSE IF ~s2.ok THEN SendResult(s2, "NetworkError")
        ELSE SendResult(s2, "Ok")

----------------------------------------------------------------------------
(* Inputs of Request::parse: a request line, up to MaxHeaderLines header    *)
(* lines, the blank line and up to MaxTrailing bytes after it.              *)

MaxHeaderLines == 2
MaxTrailing == 4
MaxRead == 2

RequestLinePool ==
    { <<71, 69, 84, 32, 47>>,                 \* GET /
      <<80, 85, 84, 32, 47, 195, 169>>,       \* PUT /e-acute
      <<71, 69, 84>>,                         \* GET
      <<66, 65, 68, 32, 47>>,                 \* BAD /
      <<71, 69, 84, 32, 32, 120>>,            \* GET, two spaces, x
      <<71, 69, 84, 32, 47, 32, 72, 84, 84, 80, 47, 49, 46, 49>> } \* GET / HTTP/1.1

HeaderLinePool ==
    { REQ_HEAD_CONTENT_LENGTH \o <<58, 50>>,           \* Content-Length:2
      REQ_HEAD_CONTENT_LENGTH \o <<58, 32, 48>>,       \* Content-Length: 0
      <<99, 111, 110, 116, 101, 110, 116, 45, 108, 101, 110, 103, 116, 104, 58, 120>>,
                                                       \* content-length:x
      REQ_HEAD_CONTENT_LENGTH \o <<58>>,               \* Content-Length: (no value)
      REQ_HEAD_HOST \o <<58, 104>>,                    \* Host:h
      <<104, 111, 115, 116, 58, 32, 103>>,             \* host: g
      REQ_HEAD_CONTENT_TYPE \o <<58, 116>>,            \* Content-Type:t
      <<88, 58, 32, 195, 169>>,                        \* X: e-acute
      <<120, 58, 49>> }                                \* x:1

\* the headers asked of get_header: the value of a query is not looked at
HeaderQueries ==
    { RequestHeader("ContentLength", <<>>, <<>>, 99),
      RequestHeader("Host", <<>>, <<122, 122>>, 0),
      RequestHeader("UserAgent", <<>>, <<>>, 0),
      RequestHeader("ContentType", <<>>, <<>>, 0),
      RequestHeader("Other", <<120>>, <<>>, 0),         \* x
      RequestHeader("Other", <<88, 45, 89>>, <<>>, 0) } \* X-Y

NotAsked == <<>>

\* the bytes after the blank line: a, b, e-acute (two bytes)
TrailingPool == <<97, 98, 195, 169>>
\* bytes after the blank line that are not text: a, then the byte FF
TrailingBad == <<97, 255>>

RECURSIVE HeaderBlocks(_)
HeaderBlocks(n) ==
    IF n = 0 THEN { <<>> }
    ELSE HeaderBlocks(n - 1) \cup
         { blk \o h \o CRLF : blk \in HeaderBlocks(n - 1), h \in HeaderLinePool }

Min(a, b) == IF a < b THEN a ELSE b

ParseInputs ==
    { l \o CRLF \o blk \o CRLF \o t :
        l \in RequestLinePool, blk \in HeaderBlocks(MaxHeaderLines),
        t \in { SubSeq(TrailingPool, 1, Min(MaxTrailing, Len(TrailingPool))), TrailingBad } }

\* parked values of the variables a specification does not use
ParseParked ==
    p_full = <<>> /\ p_data = <<>> /\ p_res = ParseIncomplete(None) /\ p_get = NotAsked
RespParked ==
    /\ r_state = "Dropped" /\ r_server = <<>> /\ r_calls = <<>>
    /\ r_result = "none" /\ r_wlog = <<>> /\ r_out = <<>> /\ r_unflushed = <<>>
    /\ r_upg = [req |-> EmptyRequest, key |-> None]
ServeParked ==
    /\ pc = "done" /\ pending = <<>> /\ pos = 0 /\ cur_msg = <<>> /\ sent = <<>>
    /\ http_buff = <<>> /\ http_buff_offset = 0 /\ parsed = <<>>
    /\ last_parse = ParseIncomplete(None) /\ cur_req = EmptyRequest
    /\ upgraded = FALSE /\ n_handle_websocket = 0
    /\ n_parse_after_upgrade = 0 /\ n_handle_after_upgrade = 0
    /\ net_error = "none" /\ last_step = "none"
    /\ serve_result = [ok |-> TRUE, err |-> "", detail |-> ""]

NotDecoded == [tag |-> "none", frame |-> NoFrame, n |-> 0, err |-> ""]
NotReceived == [tag |-> "none", frame |-> NoFrame, buf0 |-> <<>>, stream0 |-> <<>>]
NotSent == [result |-> "none", wlog0 |-> 0, out0 |-> <<>>]
DecodeIdle == w_hdr = <<>> /\ w_given = 0 /\ w_dec = NotDecoded
EncodeIdle == w_frame = NoFrame /\ w_enc = EncodeErr(<<>>) /\ w_rt = NotDecoded
ReceiveIdle ==
    /\ w_frames = <<>> /\ w_stream = <<>> /\ w_buf = <<>> /\ w_k = 0
    /\ w_rcv = NotReceived
SendIdle == w_data = <<>> /\ w_wlog = <<>> /\ w_out = <<>> /\ w_snd = NotSent
NotMasked == [frame |-> NoFrame, data0 |-> <<>>, data |-> <<>>, n |-> 0]
MaskIdle == w_msk = NotMasked
WsParked ==
    w_mode = "none" /\ DecodeIdle /\ EncodeIdle /\ ReceiveIdle /\ SendIdle /\ MaskIdle

\* atoi and AsciiInt are not exercised on their own
AsciiIdle == a_op = "none" /\ a_in = <<>> /\ a_out = <<>>
\* no number of these inputs overflows: the build setting has no effect on them
AsciiParked == AsciiIdle /\ overflow_checks = TRUE

InitParse ==
    /\ p_full \in ParseInputs
    /\ p_data = <<>>
    /\ p_res = ParseIncomplete(None)
    /\ p_get = NotAsked
    /\ RespParked
    /\ ServeParked
    /\ WsParked
    /\ AsciiParked

\* the caller has received n more bytes and calls Request::parse on all of them
ParseMore ==
    /\ \E n \in 1..Min(MaxRead, Len(p_full) - Len(p_data)) :
          /\ p_data' = SubSeq(p_full, 1, Len(p_data) + n)
          /\ p_res' = RequestParse(p_data')
    /\ p_get' = NotAsked
    /\ UNCHANGED <<p_full, resp_vars, serve_vars, ws_vars, ascii_vars>>

\* the handler calls get_header on the Request that parse returned
GetHeader ==
    /\ p_res.tag = "Ok"
    /\ p_get = NotAsked
    /\ \E query \in HeaderQueries :
          p_get' = <<[query |-> query, got |-> get_header(p_res.req, query)]>>
    /\ UNCHANGED <<p_full, p_data, p_res, resp_vars, serve_vars, ws_vars, ascii_vars>>

NextParse ==
    \/ ParseMore
    \/ GetHeader

SpecParse == InitParse /\ [][NextParse]_vars

\* end of the first empty line of data (0 if none): the first CR LF that
\* starts the data or directly follows another CR LF
IsCrLfEnd(data, i) == i >= 2 /\ i <= Len(data) /\ data[i - 1] = CR /\ data[i] = LF
BlankEnds(data) ==
    { i \in 2..Len(data) : IsCrLfEnd(data, i) /\ (i = 2 \/ IsCrLfEnd(data, i - 2)) }
FirstBlankEnd(data) ==
    IF BlankEnds(data) = {} THEN 0
    ELSE CHOOSE i \in BlankEnds(data) : \A j \in BlankEnds(data) : i <= j

\* the request that data starts with, when parse succeeds on data
RequestOf(data) ==
    SubSeq(data, 1, FirstBlankEnd(data) + RequestParse(data).req.content_length)

\* C6: for every R on which parse succeeds with the body ending at the last
\* byte of R, parse of every proper prefix of R returns Incomplete (never
\* ProtocolError, never a Request), also when the prefix ends inside a
\* multi-byte character.
C6_PrefixIncomplete ==
    \/ p_res.tag = "Incomplete"
    \/ ~ /\ RequestParse(p_full).tag = "Ok"
         /\ RequestParse(RequestOf(p_full)).tag = "Ok"
         /\ Len(p_data) < Len(RequestOf(p_full))

\* C7: a Request returned by a successful parse has a non-empty path; if
\* content_length > 0 the body is exactly the content_length bytes that
\* follow the blank line; if content_length = 0 the body is absent.
C7_RequestInvariant ==
    p_res.tag = "Ok" =>
        /\ p_res.req.path # <<>>
        /\ p_res.req.content_length > 0 =>
              /\ FirstBlankEnd(p_data) + p_res.req.content_length <= Len(p_data)
              /\ p_res.req.body =
                    Some(SubSeq(p_data, FirstBlankEnd(p_data) + 1,
                                FirstBlankEnd(p_data) + p_res.req.content_length))
              /\ Len(p_res.req.body[1]) = p_res.req.content_length
        /\ p_res.req.content_length = 0 => p_res.req.body = None

\* C7 witness: a parse succeeded with a body shorter than what follows the
\* blank line
C7_Witness ==
    /\ p_res.tag = "Ok"
    /\ p_res.req.content_length > 0
    /\ p_res.req.body # None
    /\ FirstBlankEnd(p_data) + p_res.req.content_length < Len(p_data)

----------------------------------------------------------------------------
(* The Responder state machine driven by an arbitrary handler, over a       *)
(* stream that may fail.                                                    *)

MaxHeaders == 2
MaxBody == 12
MaxOpWrites == 21

StatusPool == { StatusOK, StatusCode("NotFound", 0), StatusCode("Other", 204) }

RespHeaderPool ==
    { ResponseHeader("ContentType", <<>>, <<116, 101, 120, 116, 47, 104, 116, 109, 108>>, 0),
                                                                    \* text/html
      ResponseHeader("ContentLength", <<>>, <<>>, 0),
      ResponseHeader("ContentLength", <<>>, <<>>, 5),
      ResponseHeader("Other", <<88>>, <<121>>, 0) }

BodyPool == { [i \in 1..n |-> 97] : n \in {0, 2, MaxBody} }

\* request.host, which Responder::new stores in ResponseHeader::Server
HostPool == { <<>>, <<82, 117, 115, 116, 83, 101, 114, 118, 101, 114>> }   \* "", RustServer

\* no failure, one failed write, or every write failing from some point on
FaultPlans ==
    { {} } \cup { {k} : k \in 1..MaxOpWrites } \cup { k..MaxOpWrites : k \in 1..MaxOpWrites }

NoRespHeader == ResponseHeader("Other", <<>>, <<>>, 0)
Call(op, status, header, body) ==
    [op |-> op, status |-> status, header |-> header, body |-> body]

InitResp ==
    /\ r_state = "Initial"
    /\ r_server \in HostPool
    /\ r_calls = <<>>
    /\ r_result = "none"
    /\ r_wlog = <<>>
    /\ r_out = <<>>
    /\ r_unflushed = <<>>
    /\ r_upg = [req |-> EmptyRequest, key |-> None]
    /\ ParseParked
    /\ ServeParked
    /\ WsParked
    /\ AsciiParked

\* the operation ran on stream s: Ok moves the handle to state next, an
\* error drops it (the handle was moved into the call)
RespReturn(s, next, call) ==
    /\ r_wlog' = s.wlog
    /\ r_out' = s.out
    /\ r_unflushed' = r_unflushed \o s.unflushed
    /\ r_result' = IF s.ok THEN "Ok" ELSE "NetworkError"
    /\ r_state' = IF s.ok THEN next ELSE "Dropped"
    /\ r_calls' = Append(r_calls, call)
    /\ UNCHANGED <<r_server, r_upg, parse_vars, serve_vars, ws_vars, ascii_vars>>

\* Responder::with_status
WithStatus ==
    /\ r_state = "Initial"
    /\ \E status \in StatusPool, F \in FaultPlans :
          RespReturn(InnerWithStatus(StreamAt(r_wlog, r_out, F), r_server, status),
                     "Sending", Call("with_status", status, NoRespHeader, <<>>))

\* Responder::with_header
InitialWithHeader ==
    /\ r_state = "Initial"
    /\ \E h \in RespHeaderPool, F \in FaultPlans :
          RespReturn(ResponderWithHeader(StreamAt(r_wlog, r_out, F), r_server, StatusOK, h),
                     "Sending", Call("with_header", StatusOK, h, <<>>))

\* ResponderSending::with_header
SendingWithHeader ==
    /\ r_state = "Sending"
    /\ Len(r_calls) <= MaxHeaders
    /\ \E h \in RespHeaderPool, F \in FaultPlans :
          RespReturn(InnerWithHeader(StreamAt(r_wlog, r_out, F), h),
                     "Sending", Call("with_header", StatusOK, h, <<>>))

\* ResponderSending::no_body
SendingNoBody ==
    /\ r_state = "Sending"
    /\ \E F \in FaultPlans :
          RespReturn(InnerNoBody(StreamAt(r_wlog, r_out, F)),
                     "Terminal", Call("no_body", StatusOK, NoRespHeader, <<>>))

\* ResponderSending::with_body
SendingWithBody ==
    /\ r_state = "Sending"
    /\ \E body \in BodyPool, F \in FaultPlans :
          RespReturn(InnerWithBody(StreamAt(r_wlog, r_out, F), body),
                     "Terminal", Call("with_body", StatusOK, NoRespHeader, body))

\* requests given to upgrade, each with the Sec-WebSocket-Key value it
\* carries: the header alone, in lower case after a Host header with spaces
\* round the value, in upper case before another header, after a line
\* without a colon; and requests without the header
UpgradeRequestPool ==
    LET rl == <<71, 69, 84, 32, 47, 119>> \o CRLF
        kk == <<100, 71, 104, 108>>
    IN  { [raw |-> rl \o REQ_HEAD_SEC_WEBSOCKET_KEY \o <<COLON>> \o kk \o CRLF \o CRLF,
           key |-> Some(kk)],
          [raw |-> rl \o REQ_HEAD_HOST \o <<COLON, 104>> \o CRLF
                      \o <<115, 101, 99, 45, 119, 101, 98, 115, 111, 99, 107, 101, 116,
                           45, 107, 101, 121>> \o <<COLON, SP, 113, SP>> \o CRLF \o CRLF,
           key |-> Some(<<113>>)],
          [raw |-> rl \o <<83, 69, 67, 45, 87, 69, 66, 83, 79, 67, 75, 69, 84, 45, 75,
                           69, 89>> \o <<COLON>> \o kk \o CRLF
                      \o <<88, COLON, 121>> \o CRLF \o CRLF,
           key |-> Some(kk)],
          [raw |-> rl \o <<102, 111, 111>> \o CRLF
                      \o REQ_HEAD_SEC_WEBSOCKET_KEY \o <<COLON>> \o kk \o CRLF \o CRLF,
           key |-> Some(kk)],
          [raw |-> rl \o REQ_HEAD_HOST \o <<COLON, 104>> \o CRLF \o CRLF, key |-> None],
          [raw |-> rl \o CRLF, key |-> None] }

\* Responder::upgrade: the handle is consumed whatever the outcome
Upgrade ==
    /\ r_state = "Initial"
    /\ \E u \in UpgradeRequestPool, F \in FaultPlans :
          \E req \in { RequestParse(u.raw).req } :
          \E r \in { ResponderUpgrade(StreamAt(r_wlog, r_out, F), r_server, req) } :
              /\ r_upg' = [req |-> req, key |-> u.key]
              /\ r_wlog' = r.s.wlog
              /\ r_out' = r.s.out
              /\ r_unflushed' = r_unflushed \o r.s.unflushed
              /\ r_result' = r.result
              /\ r_state' = IF r.result = "Websocket" THEN "Websocket" ELSE "Dropped"
              /\ r_calls' = Append(r_calls, Call("upgrade", StatusOK, NoRespHeader, <<>>))
    /\ UNCHANGED <<r_server, parse_vars, serve_vars, ws_vars, ascii_vars>>

NextResp ==
    \/ Upgrade
    \/ WithStatus
    \/ InitialWithHeader
    \/ SendingWithHeader
    \/ SendingNoBody
    \/ SendingWithBody

SpecResp == InitResp /\ [][NextResp]_vars

\* the place of a write in a response: status line, header, blank line, body
KindRank(kind) ==
    CASE kind = "status" -> 0
      [] kind = "header" -> 1
      [] kind = "blank" -> 2
      [] kind = "body" -> 3

\* decimal digits of n, most significant first
RECURSIVE Decimal(_)
Decimal(n) == IF n < 10 THEN <<ZERO + n>> ELSE Decimal(n \div 10) \o <<ZERO + (n % 10)>>

\* the wire form of a header line; no line at all for Content-Length 0
HeaderLine(h) ==
    IF h.variant = "ContentLength"
    THEN IF h.num = 0 THEN <<>>
         ELSE RESP_HEAD_CONTENT_LENGTH \o <<COLON, SP>> \o Decimal(h.num) \o CRLF
    ELSE ResponseHeaderName(h) \o <<COLON, SP>> \o h.val \o CRLF

\* the wire form of a status line, with the Server line that follows it
StatusLines(server, status) ==
    HTTP_PROTO \o <<SP>> \o StatusData(status) \o CRLF \o
    (IF server = <<>> THEN <<>> ELSE RESP_HEAD_SERVER \o <<COLON, SP>> \o server \o CRLF)

\* the response that the calls describe: status line, headers in call
\* order, blank line, body
RECURSIVE Render(_, _, _)
Render(server, calls, i) ==
    IF i > Len(calls) THEN <<>>
    ELSE LET c == calls[i]
             part ==
                CASE c.op = "with_status" -> StatusLines(server, c.status)
                  [] c.op = "with_header" ->
                        (IF i = 1 THEN StatusLines(server, StatusOK) ELSE <<>>)
                        \o HeaderLine(c.header)
                  [] c.op = "no_body" -> CRLF
                  [] c.op = "with_body" ->
                        HeaderLine(ResponseHeader("ContentLength", <<>>, <<>>, Len(c.body)))
                        \o CRLF \o c.body
         IN  part \o Render(server, calls, i + 1)

IsPrefix(a, b) == Len(a) <= Len(b) /\ SubSeq(b, 1, Len(a)) = a

RespDone == r_state = "Terminal" /\ r_result = "Ok"

\* C1: the bytes of a response are written in the order status line, headers
\* in call order, blank line, body; nothing of a status line or header is
\* written after the blank line; with_header on an Initial responder writes
\* the status line HTTP/1.1 200 OK before the header.
C1_ResponseOrder ==
    /\ \A i, j \in 1..Len(r_wlog) :
          (i < j /\ r_wlog[i].ok /\ r_wlog[j].ok)
              => KindRank(r_wlog[i].kind) <= KindRank(r_wlog[j].kind)
    /\ RespDone => r_out = Render(r_server, r_calls, 1)
    /\ (r_calls # <<>> /\ r_calls[1].op = "with_header" /\ r_state # "Dropped")
          => IsPrefix(HTTP_PROTO \o <<SP, 50, 48, 48, SP, 79, 75, CR, LF>>, r_out)

\* C1 witness: a response begun with with_header on the Initial responder,
\* given a further header and finished with a non-empty body
C1_Witness ==
    /\ RespDone
    /\ Len(r_calls) = 3
    /\ r_calls[1].op = "with_header"
    /\ r_calls[2].op = "with_header" /\ r_calls[2].header.variant = "Other"
    /\ r_calls[3].op = "with_body" /\ r_calls[3].body # <<>>
    /\ r_server # <<>>

\* C2: when a write of a status line or of a header fails, no further write
\* is attempted for that response and the operation returns NetworkError.
C2_AbortAfterFailedWrite ==
    \A i \in 1..Len(r_wlog) :
        (~r_wlog[i].ok /\ r_wlog[i].kind \in {"status", "header"})
            => (i = Len(r_wlog) /\ r_result = "NetworkError")

\* index of the first CR of a CR LF in s, 0 if there is none
RECURSIVE CrLfIndex(_, _)
CrLfIndex(s, i) ==
    IF i + 1 > Len(s) THEN 0
    ELSE IF s[i] = CR /\ s[i + 1] = LF THEN i
    ELSE CrLfIndex(s, i + 1)

\* the CR LF terminated lines of s, without their terminators
RECURSIVE LinesOf(_)
LinesOf(s) ==
    LET k == CrLfIndex(s, 1)
    IN  IF k = 0 THEN <<>>
        ELSE <<SubSeq(s, 1, k - 1)>> \o LinesOf(SubSeq(s, k + 2, Len(s)))

\* the lines of a response before its blank line
HeadLines(out) == LinesOf(SubSeq(out, 1, FirstBlankEnd(out) - 2))

IsContentLengthLine(line) ==
    eq_ignore_ascii_case(trim(splitn(line, 2, COLON)[1]), RESP_HEAD_CONTENT_LENGTH)

\* C3: a response finished with with_body(bytes) of length L carries
\* Content-Length: L before the blank line and the body when L > 0, and no
\* Content-Length header at all when L = 0, whatever with_header calls came
\* before.
C3_ContentLengthMatchesBody ==
    (RespDone /\ r_calls[Len(r_calls)].op = "with_body") =>
        LET body == r_calls[Len(r_calls)].body
            lines == HeadLines(r_out)
        IN  /\ SubSeq(r_out, FirstBlankEnd(r_out) + 1, Len(r_out)) = body
            /\ Len(body) > 0 =>
                  \E k \in 1..Len(lines) :
                      lines[k] = RESP_HEAD_CONTENT_LENGTH \o <<COLON, SP>> \o Decimal(Len(body))
            /\ Len(body) = 0 =>
                  \A k \in 1..Len(lines) : ~IsContentLengthLine(lines[k])

----------------------------------------------------------------------------
(* WebsocketFrame::decode and encode applied to chosen inputs, and          *)
(* Websocket::receive and send on a stream: the client sends a script of    *)
(* well-formed frames, the caller receives them one by one; or the caller   *)
(* sends data over a stream that may fail.                                  *)

MaxFrames == 2
MaxSends == 1
\* capacities of the caller's buffer
WsBufLens == {4, 130}

\* first bytes of frames: fin with opcode 1, 2, 15; no fin; opcode 0
DecodeFirstBytes == {129, 130, 143, 2, 128}

\* the bytes after the first: the 7-bit field with or without the mask
\* bit, and what follows it
DecodeTails ==
    LET fill == <<1, 2, 3, 4, 9, 9, 9, 9, 9, 9, 9, 9>>
    IN  { <<b>> \o fill : b \in {0, 5, 125, 128, 133, 253} }
        \cup { <<b>> \o e \o fill :
                 b \in {126, 254},
                 e \in { <<0, 5>>, <<0, 126>>, <<0, 127>>, <<1, 0>>, <<255, 255>> } }
        \cup { <<b>> \o e \o fill :
                 b \in {127, 255},
                 e \in { <<0, 0, 0, 0, 0, 0, 0, 126>>, <<0, 0, 0, 0, 0, 1, 0, 0>>,
                         <<128, 0, 0, 0, 0, 0, 0, 1>> } }

DecodeInputs == { <<a>> \o t : a \in DecodeFirstBytes, t \in DecodeTails }

\* frames given to encode: fin set, a mask iff masked
EncodeInputs ==
    { WebsocketFrame(TRUE, op, mask # None, len, mask) :
        op \in {1, 2, 15},
        len \in { U64(0), U64(125), U64(126), U64(127), U64(65535), U64(65536),
                  <<0, 0, 1, 0, 0, 0, 0, 0>> },
        mask \in { None, Some(<<1, 2, 3, 4>>) } }

\* a frame on the wire: tier is the width of its length field (7, 16, 64)
WireFrame(opcode, tier, mask, payload) ==
    [opcode |-> opcode, tier |-> tier, mask |-> mask, payload |-> payload]

Payload(n) == [i \in 1..n |-> (i * 7) % 256]

WireHeader(f) ==
    LET m == IF f.mask = None THEN 0 ELSE 128
        n == Len(f.payload)
    IN  <<128 + f.opcode>>
        \o (IF f.tier = 7 THEN <<m + n>>
            ELSE IF f.tier = 16 THEN <<m + 126, n \div 256, n % 256>>
            ELSE <<m + 127, 0, 0, 0, 0, 0, (n \div 65536) % 256, (n \div 256) % 256, n % 256>>)
        \o (IF f.mask = None THEN <<>> ELSE f.mask[1])

Wire(f) == WireHeader(f) \o f.payload

RECURSIVE WireAll(_)
WireAll(fs) == IF fs = <<>> THEN <<>> ELSE Wire(fs[1]) \o WireAll(Tail(fs))

FramePool ==
    LET mk == Some(<<1, 2, 3, 4>>)
    IN  { WireFrame(2, 7, mk, Payload(2)),
          WireFrame(1, 7, mk, Payload(0)),
          WireFrame(2, 7, None, Payload(2)),
          WireFrame(1, 7, None, Payload(5)),
          WireFrame(2, 16, mk, Payload(126)),
          WireFrame(2, 16, None, Payload(126)),
          WireFrame(2, 16, mk, Payload(127)),
          WireFrame(2, 64, mk, Payload(3)),
          WireFrame(1, 64, None, Payload(3)),
          WireFrame(0, 7, mk, Payload(2)),
          WireFrame(0, 7, None, Payload(5)) }

RECURSIVE FrameScripts(_)
FrameScripts(n) ==
    IF n = 0 THEN { <<>> }
    ELSE FrameScripts(n - 1)
         \cup { Append(fs, f) : fs \in { g \in FrameScripts(n - 1) : Len(g) = n - 1 },
                                f \in FramePool }

\* data given to send: the lengths at the ends of the three header sizes
SendLens == {0, 1, 125, 126, 65535, 65536}
SendPool == { [i \in 1..n |-> i % 256] : n \in SendLens }
SendFaults == { {}, {1}, {2} }

MaxMasks == 2
MaskPool == { None, Some(<<1, 2, 3, 4>>), Some(<<255, 0, 170, 85>>), Some(<<0, 0, 0, 0>>) }
MaskData ==
    { Payload(n) : n \in {0, 1, 3, 4, 5, 9} } \cup { <<0, 0, 0, 0, 0>>, <<255, 128, 127, 1, 254, 85>> }
MaskInputs ==
    { [frame |-> WebsocketFrame(TRUE, 2, mask # None, U64(Len(d)), mask),
       data0 |-> d, data |-> d, n |-> 0] : mask \in MaskPool, d \in MaskData }

InitWs ==
    /\ \/ /\ w_mode = "decode" /\ w_hdr \in DecodeInputs /\ w_given = 0 /\ w_dec = NotDecoded
          /\ EncodeIdle /\ ReceiveIdle /\ SendIdle /\ MaskIdle
       \/ /\ w_mode = "encode" /\ w_frame \in EncodeInputs
          /\ w_enc = EncodeErr(<<>>) /\ w_rt = NotDecoded
          /\ DecodeIdle /\ ReceiveIdle /\ SendIdle /\ MaskIdle
       \/ /\ w_mode = "mask" /\ w_msk \in MaskInputs
          /\ DecodeIdle /\ EncodeIdle /\ ReceiveIdle /\ SendIdle
       \/ /\ w_mode = "receive"
          /\ w_frames \in FrameScripts(MaxFrames) \ { <<>> }
          /\ w_stream = WireAll(w_frames)
          /\ w_buf \in { [i \in 1..n |-> 255] : n \in WsBufLens }
          /\ w_k = 0 /\ w_rcv = NotReceived
          /\ DecodeIdle /\ EncodeIdle /\ SendIdle /\ MaskIdle
       \/ /\ w_mode = "send" /\ SendIdle
          /\ DecodeIdle /\ EncodeIdle /\ ReceiveIdle /\ MaskIdle
    /\ ParseParked
    /\ RespParked
    /\ ServeParked
    /\ AsciiParked

\* decode is given the first bytes of the header
DecodeFirst ==
    /\ w_mode = "decode" /\ w_given = 0
    /\ \E n \in {1, 2, 6} :
          /\ w_given' = n
          /\ w_dec' = decode(SubSeq(w_hdr, 1, n))
    /\ UNCHANGED <<w_mode, w_hdr, w_frame, w_enc, w_rt, w_frames, w_stream, w_buf, w_k,
                   w_rcv, w_data, w_wlog, w_out, w_snd, w_msk, parse_vars, resp_vars, serve_vars, ascii_vars>>

\* decode asked for n more bytes and is given them
DecodeMore ==
    /\ w_mode = "decode" /\ w_dec.tag = "InsufficientData"
    /\ w_given + w_dec.n <= Len(w_hdr)
    /\ w_given' = w_given + w_dec.n
    /\ w_dec' = decode(SubSeq(w_hdr, 1, w_given'))
    /\ UNCHANGED <<w_mode, w_hdr, w_frame, w_enc, w_rt, w_frames, w_stream, w_buf, w_k,
                   w_rcv, w_data, w_wlog, w_out, w_snd, w_msk, parse_vars, resp_vars, serve_vars, ascii_vars>>

\* encode into a zeroed header buffer, then decode of the bytes produced
EncodeDecode ==
    /\ w_mode = "encode" /\ w_rt = NotDecoded
    /\ w_enc' = encode(w_frame, [i \in 1..14 |-> 0])
    /\ w_rt' = decode(SubSeq(w_enc'.dest, 1, w_enc'.n))
    /\ UNCHANGED <<w_mode, w_hdr, w_given, w_dec, w_frame, w_frames, w_stream, w_buf, w_k,
                   w_rcv, w_data, w_wlog, w_out, w_snd, w_msk, parse_vars, resp_vars, serve_vars, ascii_vars>>

\* websocket.receive(buf)
Receive ==
    /\ w_mode = "receive" /\ w_k < Len(w_frames)
    /\ w_rcv' = [tag |-> receive(w_stream, w_buf).tag,
                 frame |-> receive(w_stream, w_buf).frame,
                 buf0 |-> w_buf, stream0 |-> w_stream]
    /\ w_stream' = receive(w_stream, w_buf).stream
    /\ w_buf' = receive(w_stream, w_buf).buf
    /\ w_k' = w_k + 1
    /\ UNCHANGED <<w_mode, w_hdr, w_given, w_dec, w_frame, w_enc, w_rt, w_frames,
                   w_data, w_wlog, w_out, w_snd, w_msk, parse_vars, resp_vars, serve_vars, ascii_vars>>

\* websocket.send(data)
Send ==
    /\ w_mode = "send" /\ Len(w_data) < MaxSends
    /\ \E data \in SendPool, F \in SendFaults :
          /\ w_data' = Append(w_data, data)
          /\ w_snd' = [result |-> send(StreamAt(w_wlog, w_out, F), data).result,
                       wlog0 |-> Len(w_wlog), out0 |-> w_out]
          /\ w_wlog' = send(StreamAt(w_wlog, w_out, F), data).s.wlog
          /\ w_out' = send(StreamAt(w_wlog, w_out, F), data).s.out
    /\ UNCHANGED <<w_mode, w_hdr, w_given, w_dec, w_frame, w_enc, w_rt, w_frames, w_stream,
                   w_buf, w_k, w_rcv, w_msk, parse_vars, resp_vars, serve_vars, ascii_vars>>

\* frame.apply_mask(data), on the data the call before left
ApplyMask ==
    /\ w_mode = "mask" /\ w_msk.n < MaxMasks
    /\ w_msk' = [w_msk EXCEPT !.data = apply_mask(w_msk.frame, w_msk.data), !.n = @ + 1]
    /\ UNCHANGED <<w_mode, w_hdr, w_given, w_dec, w_frame, w_enc, w_rt, w_frames, w_stream,
                   w_buf, w_k, w_rcv, w_data, w_wlog, w_out, w_snd, parse_vars, resp_vars,
                   serve_vars, ascii_vars>>

NextWs ==
    \/ DecodeFirst
    \/ DecodeMore
    \/ EncodeDecode
    \/ Receive
    \/ Send
    \/ ApplyMask

SpecWs == InitWs /\ [][NextWs]_vars

----------------------------------------------------------------------------
(* atoi and AsciiInt applied to chosen inputs, in a build with and in a     *)
(* build without overflow checks.                                           *)

\* texts given to atoi: those of the tests of ascii.rs, the empty text,
\* non-digits at the start, in the middle and at the end, the bytes next to
\* '0' and '9', leading zeros, and values at and beyond the end of u32
AtoiInputs ==
    { <<>>,
      <<48>>, <<53>>, <<49, 50, 51>>,
      <<49, 50, 51, 52, 53, 54, 55, 56, 57>>,
      <<48, 49, 50, 51, 52, 53, 54, 55, 56, 57>>,
      <<97, 98, 99>>, <<49, 50, 51, 97, 52, 53, 54>>,
      <<97, 49>>, <<49, 97>>, <<49, 50, 32>>, <<32, 49, 50>>, <<45, 49>>, <<43, 49>>,
      <<49, 46, 53>>, <<47>>, <<58>>, <<49, 47>>, <<58, 49>>,
      <<48, 48, 55>>, <<48, 48>>,
      <<48, 48, 48, 48, 48, 48, 48, 48, 48, 48, 53>>,
      <<48, 48, 48, 48, 48, 48, 48, 48, 48, 48, 48, 48, 48>>,
      <<52, 50, 57, 52, 57, 54, 55, 50, 57, 53>>,
      <<52, 50, 57, 52, 57, 54, 55, 50, 57, 54>>,
      <<52, 50, 57, 52, 57, 54, 55, 51, 48, 49>>,
      <<53, 48, 48, 48, 48, 48, 48, 48, 48, 48>>,
      <<57, 57, 57, 57, 57, 57, 57, 57, 57, 57, 57>>,
      <<49, 56, 52, 52, 54, 55, 52, 52, 48, 55, 51, 55, 48, 57, 53, 53, 49, 54, 49, 54>>,
      <<57, 57, 57, 57, 57, 57, 57, 57, 57, 57, 57, 120>> }

\* values of at most 9 decimal digits given to AsciiInt::from
ItoaSmallInputs ==
    { U64(n) : n \in {0, 1, 9, 10, 12, 99, 100, 123, 1203, 12030, 100002,
                      123456789, 999999999} }

\* values of 10 to 20 decimal digits: 10^9, u32::MAX and the next, 2^63,
\* 10^19 - 1, 10^19, u64::MAX
ItoaLargeInputs ==
    { U64(1000000000),
      <<0, 0, 0, 0, 255, 255, 255, 255>>,
      <<0, 0, 0, 1, 0, 0, 0, 0>>,
      <<128, 0, 0, 0, 0, 0, 0, 0>>,
      <<138, 199, 35, 4, 137, 231, 255, 255>>,
      <<138, 199, 35, 4, 137, 232, 0, 0>>,
      <<255, 255, 255, 255, 255, 255, 255, 255>> }

NotFormatted == <<>>

AsciiUpper(t) == [i \in 1..Len(t) |-> IF t[i] >= 97 /\ t[i] <= 122 THEN t[i] - 32 ELSE t[i]]
AsciiLower(t) == [i \in 1..Len(t) |-> IF t[i] >= 65 /\ t[i] <= 90 THEN t[i] + 32 ELSE t[i]]

\* every catalog name as written, in upper and in lower case, and names
\* outside the catalog: X-Custom, Hosts, Hos, the empty name, Content-Lengt,
\* `Host ` with a trailing space, Content_Length
ResolveNames ==
    UNION { { RequestHeaderArms[i][2], AsciiUpper(RequestHeaderArms[i][2]),
              AsciiLower(RequestHeaderArms[i][2]) } : i \in 1..Len(RequestHeaderArms) }
    \cup { <<88, 45, 67, 117, 115, 116, 111, 109>>, <<72, 111, 115, 116, 115>>, <<72, 111, 115>>, <<>>, <<67, 111, 110, 116, 101, 110, 116, 45, 76, 101, 110, 103, 116>>, <<72, 111, 115, 116, 32>>, <<67, 111, 110, 116, 101, 110, 116, 95, 76, 101, 110, 103, 116, 104>> }

\* values: v, empty, ` a B `, 12, x1
ResolveValues == { <<118>>, <<>>, <<32, 97, 32, 66, 32>>, <<49, 50>>, <<120, 49>> }

\* the key of RFC 6455 section 1.3: dGhlIHNhbXBsZSBub25jZQ==
RfcKey == <<100, 71, 104, 108, 73, 72, 78, 104, 98, 88, 66, 115, 90, 83, 66, 117, 98, 50, 53, 106, 90, 81, 61, 61>>

\* keys: of the RFC, empty, x, with a two-byte character, and of 19, 20, 28
\* and 100 bytes (55, 56, 64 and 136 bytes hashed)
AcceptKeys ==
    { RfcKey, <<>>, <<120>>, <<107, 195, 169, 121>> }
    \cup { [i \in 1..n |-> 65 + (i % 26)] : n \in {19, 20, 28, 100} }

InitAscii ==
    /\ overflow_checks \in BOOLEAN
    /\ \/ a_op = "atoi" /\ a_in \in AtoiInputs
       \/ a_op = "itoa" /\ a_in \in ItoaSmallInputs \cup ItoaLargeInputs
       \/ a_op = "resolve" /\ a_in \in { [name |-> n, value |-> v] :
                                            n \in ResolveNames, v \in ResolveValues }
       \/ a_op = "accept" /\ a_in \in AcceptKeys
    /\ a_out = <<>>
    /\ ParseParked
    /\ RespParked
    /\ ServeParked
    /\ WsParked

\* atoi(data)
Atoi ==
    /\ a_op = "atoi" /\ a_out = <<>>
    /\ a_out' = atoi(a_in)
    /\ UNCHANGED <<overflow_checks, a_op, a_in, parse_vars, resp_vars, serve_vars, ws_vars>>

\* AsciiInt::from(value).as_str()
Itoa ==
    /\ a_op = "itoa" /\ a_out = <<>>
    /\ a_out' = [text |-> AsciiIntAsStr(AsciiIntFrom(a_in)), back |-> NotFormatted]
    /\ UNCHANGED <<overflow_checks, a_op, a_in, parse_vars, resp_vars, serve_vars, ws_vars>>

\* RequestHeader::try_from((name, value))
Resolve ==
    /\ a_op = "resolve" /\ a_out = <<>>
    /\ a_out' = RequestHeaderTryFrom(a_in.name, a_in.value)
    /\ UNCHANGED <<overflow_checks, a_op, a_in, parse_vars, resp_vars, serve_vars, ws_vars>>

\* sec_websocket_accept_val(key)
AcceptVal ==
    /\ a_op = "accept" /\ a_out = <<>>
    /\ a_out' = sec_websocket_accept_val(a_in)
    /\ UNCHANGED <<overflow_checks, a_op, a_in, parse_vars, resp_vars, serve_vars, ws_vars>>

\* atoi of the text AsciiInt produced
AtoiBack ==
    /\ a_op = "itoa" /\ a_out # <<>> /\ a_out.back = NotFormatted
    /\ a_out' = [a_out EXCEPT !.back = Some(atoi(a_out.text))]
    /\ UNCHANGED <<overflow_checks, a_op, a_in, parse_vars, resp_vars, serve_vars, ws_vars>>

NextAscii ==
    \/ Atoi
    \/ Itoa
    \/ AtoiBack
    \/ Resolve
    \/ AcceptVal

SpecAscii == InitAscii /\ [][NextAscii]_vars

----------------------------------------------------------------------------
(* server.rs: Server::serve on one connection.  The client sends the        *)
(* messages of a script in order; a read returns any non-empty part of what *)
(* is left of the current message that fits the slice it was given.  The    *)
(* two handler callbacks are the application's: each is a step that may     *)
(* return any value of its result type.                                     *)

BuffLen == 40

ReqGet == <<71, 69, 84, 32, 47, 13, 10, 13, 10>>                \* GET /
ReqPut == <<80, 85, 84, 32, 47>> \o CRLF \o REQ_HEAD_CONTENT_LENGTH
          \o <<58, 50>> \o CRLF \o CRLF \o <<97, 98>>           \* PUT / with body ab
ReqWs == <<71, 69, 84, 32, 47, 119>> \o CRLF \o REQ_HEAD_SEC_WEBSOCKET_KEY
          \o <<58, 107>> \o CRLF \o CRLF                        \* GET /w with a key
ReqBad == <<66, 65, 68, 32, 47, 13, 10, 13, 10>>                \* BAD /
\* GET / followed by a path that alone fills the buffer, no CR LF
ReqLong == <<71, 69, 84, 32, 47>> \o [i \in 1..BuffLen |-> 97]
\* PUT / declaring a body of 99 bytes, more than the buffer holds
ReqBig == <<80, 85, 84, 32, 47>> \o CRLF \o REQ_HEAD_CONTENT_LENGTH
          \o <<58, 57, 57>> \o CRLF \o CRLF \o [i \in 1..BuffLen |-> 98]
\* a masked binary frame with the payload "hi"
FrameHi == <<130, 130, 1, 2, 3, 4, 105, 107>>

Scripts ==
    { <<ReqGet, ReqGet>>,
      <<ReqPut, ReqGet>>,
      <<ReqGet, ReqPut>>,
      <<ReqWs, FrameHi, ReqGet>>,
      <<ReqWs, ReqGet>>,
      <<ReqBad>>,
      <<ReqLong>>,
      <<ReqBig>> }

ServeOk == [ok |-> TRUE, err |-> "", detail |-> ""]
ServeErr(err, detail) == [ok |-> FALSE, err |-> err, detail |-> detail]
NotReturned == [ok |-> FALSE, err |-> "running", detail |-> ""]

\* the values of HandlerError a handler can return
HandlerErrors ==
    { "ResponderError(NetworkError)", "ResponderError(ProtocolError)",
      "WebsocketError(NetworkError)", "WebsocketError(Unsupported)",
      "WebsocketError(InsufficientData)", "CustomError" }

\* the match on the handler's error in serve
ServeOnHandlerError(e) ==
    IF e = "ResponderError(NetworkError)" THEN ServeOk
    ELSE IF e = "ResponderError(ProtocolError)" THEN ServeErr("ProtocolError", "")
    ELSE ServeErr("HandlerError", e)

\* which network failure, if any, a handler error reports
NetErrorOf(e) ==
    IF e = "ResponderError(NetworkError)" THEN "responder_write"
    ELSE IF e = "WebsocketError(NetworkError)" THEN "websocket_io"
    ELSE "none"

\* the slice serve hands to Request::parse: &http_buff[..]
ServeParseSlice(buff, offset) == buff

\* buff with chunk copied in at offset (client.read(&mut http_buff[offset..]))
ReadInto(buff, offset, chunk) ==
    SubSeq(buff, 1, offset) \o chunk \o SubSeq(buff, offset + Len(chunk) + 1, Len(buff))

Init ==
    /\ pc = "read"
    /\ pending \in Scripts
    /\ pos = 0
    /\ cur_msg = <<>>
    /\ sent = <<>>
    /\ http_buff = [i \in 1..BuffLen |-> 0]
    /\ http_buff_offset = 0
    /\ parsed = <<>>
    /\ last_parse = ParseIncomplete(None)
    /\ cur_req = EmptyRequest
    /\ upgraded = FALSE
    /\ n_handle_websocket = 0
    /\ n_parse_after_upgrade = 0
    /\ n_handle_after_upgrade = 0
    /\ net_error = "none"
    /\ last_step = "none"
    /\ serve_result = NotReturned
    /\ ParseParked
    /\ RespParked
    /\ WsParked
    /\ AsciiParked

ServeReturn(result) ==
    /\ pc' = "done"
    /\ serve_result' = result

\* a plausible slip: a read of 0 bytes always counts as a clean close
ReadZeroAlwaysOk ==
    /\ pc = "read"
    /\ ServeReturn(ServeOk)
    /\ last_step' = "ReadZero"
    /\ UNCHANGED <<pending, pos, cur_msg, sent, http_buff, http_buff_offset, parsed,
                   last_parse, cur_req, upgraded, n_handle_websocket,
                   n_parse_after_upgrade, n_handle_after_upgrade, net_error,
                   parse_vars, resp_vars, ws_vars, ascii_vars>>

\* client.read returns Ok(0): the client closed, or the slice was empty
ReadZero ==
    /\ pc = "read"
    /\ ServeReturn(IF http_buff_offset > 0 THEN ServeErr("BufferExceeded", "0") ELSE ServeOk)
    /\ last_step' = "ReadZero"
    /\ UNCHANGED <<pending, pos, cur_msg, sent, http_buff, http_buff_offset, parsed,
                   last_parse, cur_req, upgraded, n_handle_websocket,
                   n_parse_after_upgrade, n_handle_after_upgrade, net_error,
                   parse_vars, resp_vars, ws_vars, ascii_vars>>

\* client.read returns Err(_)
ReadErr ==
    /\ pc = "read"
    /\ ServeReturn(ServeOk)
    /\ net_error' = "read"
    /\ last_step' = "ReadErr"
    /\ UNCHANGED <<pending, pos, cur_msg, sent, http_buff, http_buff_offset, parsed,
                   last_parse, cur_req, upgraded, n_handle_websocket,
                   n_parse_after_upgrade, n_handle_after_upgrade,
                   parse_vars, resp_vars, ws_vars, ascii_vars>>

\* client.read returns Ok(n), n > 0: the offset advances and the buffer is parsed
ReadData ==
    /\ pc = "read"
    /\ pending # <<>>
    /\ \E n \in 1..Min(Len(pending[1]) - pos, BuffLen - http_buff_offset) :
          /\ http_buff' = ReadInto(http_buff, http_buff_offset,
                                   SubSeq(pending[1], pos + 1, pos + n))
          /\ http_buff_offset' = http_buff_offset + n
          /\ sent' = sent \o SubSeq(pending[1], pos + 1, pos + n)
          /\ IF pos + n = Len(pending[1])
             THEN pending' = Tail(pending) /\ pos' = 0
             ELSE pending' = pending /\ pos' = pos + n
    /\ cur_msg' = pending[1]
    /\ parsed' = ServeParseSlice(http_buff', http_buff_offset')
    /\ last_parse' = RequestParse(parsed')
    /\ n_parse_after_upgrade' =
          IF upgraded THEN n_parse_after_upgrade + 1 ELSE n_parse_after_upgrade
    /\ last_step' = last_parse'.tag
    /\ \/ /\ last_parse'.tag = "Ok"
          /\ pc' = "handle_request"
          /\ cur_req' = last_parse'.req
          /\ UNCHANGED serve_result
       \/ /\ last_parse'.tag = "Incomplete"
          /\ UNCHANGED <<pc, cur_req, serve_result>>
       \/ /\ last_parse'.tag = "ProtocolError"
          /\ ServeReturn(ServeErr("ProtocolError", last_parse'.err))
          /\ UNCHANGED cur_req
    /\ UNCHANGED <<upgraded, n_handle_websocket, n_handle_after_upgrade, net_error,
                   parse_vars, resp_vars, ws_vars, ascii_vars>>

\* the handler returned Err(e): serve returns what its match on e yields
HandlerFails(e) ==
    /\ ServeReturn(ServeOnHandlerError(e))
    /\ net_error' = IF NetErrorOf(e) # "none" THEN NetErrorOf(e) ELSE net_error
    /\ last_step' = e

\* self.handler.handle_request(request, resp).await
HandleRequest ==
    /\ pc = "handle_request"
    /\ n_handle_after_upgrade' =
          IF upgraded THEN n_handle_after_upgrade + 1 ELSE n_handle_after_upgrade
    /\ \/ \* Ok(None) => break: the outer loop restarts at offset 0
          /\ pc' = "read"
          /\ http_buff_offset' = 0
          /\ sent' = <<>>
          /\ last_step' = "HandlerOkNone"
          /\ UNCHANGED <<upgraded, net_error, serve_result>>
       \/ \* Ok(Some(ws)): a Websocket is only made by Responder::upgrade,
          \* which needs the Sec-WebSocket-Key header of the request
          /\ get_header(cur_req, SecWebSocketKeyQuery) # None
          /\ pc' = "handle_websocket"
          /\ upgraded' = TRUE
          /\ last_step' = "HandlerOkSome"
          /\ UNCHANGED <<http_buff_offset, sent, net_error, serve_result>>
       \/ \* Err(e)
          /\ \E e \in HandlerErrors : HandlerFails(e)
          /\ UNCHANGED <<http_buff_offset, sent, upgraded>>
    /\ UNCHANGED <<pending, pos, cur_msg, http_buff, parsed, last_parse, cur_req,
                   n_handle_websocket, n_parse_after_upgrade, parse_vars, resp_vars, ws_vars, ascii_vars>>

\* self.handler.handle_websocket(ws, http_buff).await: the handler may
\* receive the client's next message into the buffer before it returns
HandleWebsocket ==
    /\ pc = "handle_websocket"
    /\ n_handle_websocket' = n_handle_websocket + 1
    /\ \/ UNCHANGED <<pending, pos, http_buff>>
       \/ /\ pending # <<>> /\ pos = 0
          /\ http_buff' = receive(pending[1], http_buff).buf
          /\ pending' = Tail(pending)
          /\ pos' = 0
    /\ \/ \* Ok(()): the `if let Err(e)` does not match and the inner loop
          \* goes on to its next read, with the offset as it was
          /\ pc' = "read"
          /\ last_step' = "WebsocketOk"
          /\ UNCHANGED <<net_error, serve_result>>
       \/ \* Err(e)
          \E e \in HandlerErrors : HandlerFails(e)
    /\ UNCHANGED <<cur_msg, sent, http_buff_offset, parsed, last_parse, cur_req,
                   upgraded, n_parse_after_upgrade, n_handle_after_upgrade,
                   parse_vars, resp_vars, ws_vars, ascii_vars>>

Next ==
    \/ ReadZero
    \/ ReadErr
    \/ ReadData
    \/ HandleRequest
    \/ HandleWebsocket

Spec == Init /\ [][Next]_vars

----------------------------------------------------------------------------
(* Properties of Server::serve                                              *)

\* the fields of a Request a handler can observe
RequestFields(req) ==
    <<req.method, req.path, req.host, req.content_type, req.content_length, req.body>>

\* the number of leading bytes of the parsed slice a dispatched Request covers
RequestExtent(data, req) == FirstBlankEnd(data) + req.content_length

\* C4: when handle_request is invoked for a request that arrived in one or
\* more reads, every byte of the request has been read, and the Request it
\* is given equals the one a single-shot parse of the same bytes yields.
C4_SplitDeliveryEquivalent ==
    (pc = "handle_request" /\ ~upgraded) =>
        /\ sent = cur_msg
        /\ RequestFields(cur_req) = RequestFields(RequestParse(cur_msg).req)

\* C5: after a read of n > 0 bytes the parser is applied to exactly
\* http_buff[..http_buff_offset], and a dispatched Request covers only bytes
\* received since the offset was last reset to 0.
C5_ParsesOnlyReceivedBytes ==
    /\ last_step \in {"Ok", "Incomplete", "ProtocolError"} =>
          parsed = SubSeq(http_buff, 1, http_buff_offset)
    /\ pc = "handle_request" =>
          RequestExtent(parsed, cur_req) <= http_buff_offset

\* C8: once handle_request has returned a Websocket, serve parses no more
\* HTTP on the connection, does not invoke handle_request again, and invokes
\* handle_websocket exactly once, whatever handle_websocket returns.
C8_UpgradeIsFinal ==
    upgraded =>
        /\ n_parse_after_upgrade = 0
        /\ n_handle_after_upgrade = 0
        /\ n_handle_websocket <= 1
        /\ pc = "done" => n_handle_websocket = 1

\* C9: when a network error has occurred during serve (a failed read, a
\* failed Responder write, a failed Websocket read or write passed up by the
\* handler), serve returns Ok(()).
C9_NetworkErrorReturnsOk ==
    (pc = "done" /\ net_error # "none") => serve_result = ServeOk

\* C10: Incomplete keeps the offset and reads again without the handler;
\* a parse ProtocolError and a handler's ResponderError::ProtocolError both
\* return ServerError::ProtocolError; nothing but Incomplete makes serve read
\* again with the offset kept.
C10_OnlyIncompleteReadsAgain ==
    /\ last_step = "Incomplete" => pc = "read" /\ http_buff_offset > 0
    /\ last_step = "ProtocolError" =>
          pc = "done" /\ serve_result = ServeErr("ProtocolError", last_parse.err)
    /\ last_step = "ResponderError(ProtocolError)" =>
          pc = "done" /\ serve_result = ServeErr("ProtocolError", "")
    /\ (pc = "read" /\ http_buff_offset > 0) => last_step = "Incomplete"

C12_BufferExceededCarriesSize ==
    (pc = "done" /\ serve_result.err = "BufferExceeded") =>
        /\ serve_result.detail # ToString(0)
        /\ last_parse.hint # None => serve_result.detail = ToString(last_parse.hint[1])

----------------------------------------------------------------------------
(* Properties of Responder::upgrade                                         *)

UpgradeCalled == r_calls # <<>> /\ r_calls[Len(r_calls)].op = "upgrade"
AllWritesOk == \A i \in 1..Len(r_wlog) : r_wlog[i].ok

\* the handshake response for key k
HandshakeFor(server, k) ==
    StatusLines(server, StatusCode("SwitchingProtocols", 0))
    \o RESP_HEAD_SEC_WEBSOCKET_ACCEPT \o <<COLON, SP>>
    \o Base64Encode(Sha1(k \o SEC_WEBSOCKET_ACCEPT_MAGIC)) \o CRLF
    \o <<85, 112, 103, 114, 97, 100, 101, COLON, SP,
         119, 101, 98, 115, 111, 99, 107, 101, 116>> \o CRLF
    \o RESP_HEAD_CONNECTION \o <<COLON, SP, 85, 112, 103, 114, 97, 100, 101>> \o CRLF
    \o CRLF

\* C13: upgrade on a request that carries Sec-WebSocket-Key, whatever the
\* case of the name and wherever the line stands, writes the 101 status line,
\* Sec-WebSocket-Accept with the token of that key, Upgrade: websocket,
\* Connection: Upgrade and the blank line, in this order, and returns a
\* Websocket (the stream accepting every write).
C13_UpgradeHandshake ==
    (UpgradeCalled /\ r_upg.key # None /\ AllWritesOk) =>
        /\ r_result = "Websocket"
        /\ r_state = "Websocket"
        /\ r_out = HandshakeFor(r_server, r_upg.key[1])

C13_Witness ==
    /\ UpgradeCalled /\ AllWritesOk
    /\ r_upg.key = Some(<<113>>)
    /\ r_upg.req.host # <<>>
    /\ r_result = "Websocket"

\* C14: upgrade on a request without Sec-WebSocket-Key writes the 400 status
\* line and the blank line, no 101 and no Sec-WebSocket-Accept, returns
\* ProtocolError and no Websocket (the stream accepting every write).
C14_UpgradeWithoutKey ==
    (UpgradeCalled /\ r_upg.key = None /\ AllWritesOk) =>
        /\ r_result = "ProtocolError"
        /\ r_state = "Dropped"
        /\ r_out = StatusLines(r_server, StatusCode("BadRequest", 0)) \o CRLF

C14_Witness ==
    /\ UpgradeCalled /\ AllWritesOk
    /\ r_upg.key = None
    /\ r_upg.req.header_slice # None
    /\ r_result = "ProtocolError"

----------------------------------------------------------------------------
(* Properties of WebsocketFrame::decode and encode                          *)

\* what the header bytes say, read as the three-tier scheme reads them
LenField(h) == h[2] % 128
MaskBit(h) == h[2] >= 128
TierLen(h) ==
    IF LenField(h) <= 125 THEN U64(LenField(h))
    ELSE IF LenField(h) = 126 THEN <<0, 0, 0, 0, 0, 0, h[3], h[4]>>
    ELSE SubSeq(h, 3, 10)
TierHeaderLen(h) ==
    (IF LenField(h) <= 125 THEN 2 ELSE IF LenField(h) = 126 THEN 4 ELSE 10)
    + (IF MaskBit(h) THEN 4 ELSE 0)

\* C15: decode reads the length in three tiers chosen by the 7-bit field
\* alone: the field itself up to 125, the next 2 bytes when it is 126 (for
\* every 16-bit value), the next 8 bytes when it is 127; given the bytes of
\* that header it returns the frame, given fewer it asks for more.
C15_DecodeLengthTiers ==
    (w_mode = "decode" /\ w_given >= 2 /\ w_hdr[1] >= 128 /\ w_hdr[1] % 16 # 0) =>
        IF w_given >= TierHeaderLen(w_hdr)
        THEN /\ w_dec.tag = "Ok"
             /\ w_dec.frame.len = TierLen(w_hdr)
             /\ w_dec.frame.masked = MaskBit(w_hdr)
        ELSE w_dec.tag = "InsufficientData"

\* C16: a frame with fin set and opcode 1..15, encoded into a zeroed buffer
\* and decoded from the bytes produced, comes back with the same opcode,
\* fin, length and mask presence, whatever the length.
C16_EncodeDecodeRoundTrip ==
    (w_mode = "encode" /\ w_rt # NotDecoded) =>
        /\ w_enc.ok
        /\ w_rt.tag = "Ok"
        /\ w_rt.frame.opcode = w_frame.opcode
        /\ w_rt.frame.fin = w_frame.fin
        /\ w_rt.frame.len = w_frame.len
        /\ (w_rt.frame.mask # None) = (w_frame.mask # None)

----------------------------------------------------------------------------
(* Properties of Websocket::receive and send                                *)

\* the frame the last receive was called on, and whether the stream stood
\* at the start of that frame
ReceivedFrame == w_frames[w_k]
ReceiveReturned == w_mode = "receive" /\ w_k >= 1
ReceiveAtFrameStart == w_rcv.stream0 = WireAll(SubSeq(w_frames, w_k, Len(w_frames)))
FramesAfter == WireAll(SubSeq(w_frames, w_k + 1, Len(w_frames)))
ReceiveFits == Len(ReceivedFrame.payload) <= Len(w_rcv.buf0)

\* the payload of a frame as the application sent it
Unmasked(f) ==
    IF f.mask = None THEN f.payload
    ELSE [i \in 1..Len(f.payload) |-> Xor(f.payload[i], f.mask[1][((i - 1) % 4) + 1])]

\* C17: on a stream of well-formed frames, masked or unmasked, a receive
\* that starts at a frame and has room for its payload consumes that
\* frame's header and payload and nothing else, and returns its opcode,
\* length and payload.
C17_ReceiveConsumesOneFrame ==
    (ReceiveReturned /\ ReceiveAtFrameStart /\ ReceiveFits) =>
        /\ w_rcv.tag = "Ok"
        /\ w_stream = FramesAfter
        /\ w_rcv.frame.opcode = ReceivedFrame.opcode
        /\ w_rcv.frame.len = U64(Len(ReceivedFrame.payload))
        /\ SubSeq(w_buf, 1, Len(ReceivedFrame.payload)) = Unmasked(ReceivedFrame)

\* C18: when receive returns a frame of length n, the first n bytes of the
\* buffer are the payload bytes of the wire, XORed with mask[i mod 4] when
\* the mask bit was set, and the descriptor carries the opcode and n.
C18_ReceivePayloadUnmasked ==
    (ReceiveReturned /\ ReceiveAtFrameStart /\ w_rcv.tag = "Ok") =>
        /\ w_rcv.frame.opcode = ReceivedFrame.opcode
        /\ w_rcv.frame.len = U64(Len(ReceivedFrame.payload))
        /\ \A i \in 1..Len(ReceivedFrame.payload) :
              w_buf[i] = IF ReceivedFrame.mask # None
                         THEN Xor(ReceivedFrame.payload[i], ReceivedFrame.mask[1][((i - 1) % 4) + 1])
                         ELSE ReceivedFrame.payload[i]

\* C19: when the payload of the frame is longer than the caller's buffer,
\* receive returns Unsupported, the payload bytes are still on the stream
\* and the buffer is as it was.
C19_ReceiveTooLong ==
    (ReceiveReturned /\ ReceiveAtFrameStart /\ ~ReceiveFits) =>
        /\ w_rcv.tag = "Unsupported"
        /\ w_stream = ReceivedFrame.payload \o FramesAfter
        /\ w_buf = w_rcv.buf0

\* the header of a binary, final, unmasked frame of L bytes
ExpectedHeader(L) ==
    <<130>>
    \o (IF L <= 125 THEN <<L>>
        ELSE IF L <= 65535 THEN <<126, L \div 256, L % 256>>
        ELSE <<127, 0, 0, 0, 0, 0, (L \div 65536) % 256, (L \div 256) % 256, L % 256>>)

SendReturned == w_mode = "send" /\ w_snd.result # "none"
SentData == w_data[Len(w_data)]
SendWrites == SubSeq(w_wlog, w_snd.wlog0 + 1, Len(w_wlog))

\* C20: send first writes the header of a final, binary, unmasked frame
\* whose length is the data length in the three-tier scheme (2, 4 or 10
\* bytes), then the data unchanged and nothing else; when the header write
\* fails the data is not written.
C20_SendHeaderThenData ==
    SendReturned =>
        /\ SendWrites # <<>>
        /\ SendWrites[1].data = ExpectedHeader(Len(SentData))
        /\ IF ~SendWrites[1].ok
           THEN Len(SendWrites) = 1 /\ w_out = w_snd.out0 /\ w_snd.result = "NetworkError"
           ELSE IF SentData = <<>>
           THEN /\ Len(SendWrites) = 1
                /\ w_out = w_snd.out0 \o ExpectedHeader(0)
                /\ w_snd.result = "Ok"
           ELSE /\ Len(SendWrites) = 2
                /\ SendWrites[2].data = SentData
                /\ IF SendWrites[2].ok
                   THEN /\ w_out = w_snd.out0 \o ExpectedHeader(Len(SentData)) \o SentData
                        /\ w_snd.result = "Ok"
                   ELSE /\ w_out = w_snd.out0 \o ExpectedHeader(Len(SentData))
                        /\ w_snd.result = "NetworkError"

\* a send of 65536 bytes went through: 10 header bytes, then the data
C20_Witness ==
    /\ SendReturned
    /\ w_snd.result = "Ok"
    /\ Len(SentData) = 65536
    /\ Len(w_out) = Len(w_snd.out0) + 10 + 65536

----------------------------------------------------------------------------
(* Properties of atoi and AsciiInt                                          *)

IsDigit(b) == b >= 48 /\ b <= 57
AllDigits(t) == \A i \in 1..Len(t) : IsDigit(t[i])
AtoiReturned == a_op = "atoi" /\ a_out # <<>>

\* the number a digit string denotes, exact
RECURSIVE DecimalValue(_)
DecimalValue(t) ==
    IF t = <<>> THEN <<>>
    ELSE MulSmall(DecimalValue(SubSeq(t, 1, Len(t) - 1)), 10, t[Len(t)] - 48)

\* a digit string without its leading zeros (one digit is kept)
RECURSIVE StripZeros(_)
StripZeros(t) == IF Len(t) > 1 /\ t[1] = 48 THEN StripZeros(Tail(t)) ELSE t

\* C23: atoi returns no value for the empty input and for every input with
\* a byte outside '0'..'9', wherever the byte stands.
C23_AtoiRejectsNonDigits ==
    (AtoiReturned /\ (a_in = <<>> \/ ~AllDigits(a_in))) => a_out.tag = "None"

\* C24: for n of at most 9 decimal digits atoi of the text of AsciiInt::from(n)
\* is n, and atoi of a digit string with leading zeros is atoi of the string
\* without them.
C24_AtoiOfItoa ==
    /\ (a_op = "itoa" /\ a_out # <<>> /\ a_out.back # NotFormatted /\ a_in \in ItoaSmallInputs)
          => a_out.back[1] = AtoiSome(Wrap(a_in, 4))
    /\ (AtoiReturned /\ AllDigits(a_in) /\ Len(a_in) > 1 /\ a_in[1] = 48)
          => a_out = atoi(StripZeros(a_in))

\* C25: for an all-digit input whose value is beyond u32, atoi returns the
\* value modulo 2^32: it does not fail and does not abort.
C25_AtoiWraps ==
    (AtoiReturned /\ a_in # <<>> /\ AllDigits(a_in) /\ ~Fits(DecimalValue(a_in), 4))
        => a_out = AtoiSome(Wrap(DecimalValue(a_in), 4))

\* C26: the text of AsciiInt::from(n) is the shortest decimal form of n for
\* every u64 n: digits only, no leading zero unless n = 0, the value n.
C26_ItoaShortestDecimal ==
    (a_op = "itoa" /\ a_out # <<>>) =>
        /\ a_out.text # <<>>
        /\ AllDigits(a_out.text)
        /\ Len(a_out.text) > 1 => a_out.text[1] # 48
        /\ Fits(DecimalValue(a_out.text), 8)
        /\ Wrap(DecimalValue(a_out.text), 8) = a_in

\* u64::MAX has been formatted: 20 digits
C26_Witness ==
    /\ a_op = "itoa" /\ a_out # <<>>
    /\ a_in = <<255, 255, 255, 255, 255, 255, 255, 255>>
    /\ Len(a_out.text) = 20

----------------------------------------------------------------------------
(* Properties of Request::parse on incomplete and malformed input           *)

ParseCalled == p_data # <<>>

\* the first CR LF terminated line of data, if there is one
FirstLine(data) ==
    IF CrLfIndex(data, 1) = 0 THEN None
    ELSE Some(SubSeq(data, 1, CrLfIndex(data, 1) - 1))

\* a request line with an unknown method, without a path token or with an
\* empty one
RequestLineMalformed(line) ==
    \/ MethodTryFrom(splitn(line, 3, SP)[1]) = ""
    \/ Len(splitn(line, 3, SP)) < 2
    \/ splitn(line, 3, SP)[2] = <<>>

\* the complete lines of data up to its first empty line
RequestLines(data) ==
    IF FirstBlankEnd(data) = 0 THEN LinesOf(data) ELSE HeadLines(data)

\* the text after the colon of a header line, trimmed
HeaderValueText(line) ==
    IF Len(splitn(line, 2, COLON)) >= 2 THEN trim(splitn(line, 2, COLON)[2]) ELSE <<>>

\* a Content-Length line (name in any letter case) with a colon
HasContentLengthName(line) ==
    /\ Len(splitn(line, 2, COLON)) >= 2
    /\ eq_ignore_ascii_case(trim(splitn(line, 2, COLON)[1]), REQ_HEAD_CONTENT_LENGTH)

\* an unsigned decimal: one digit at least, digits only
IsUnsignedDecimal(t) == t # <<>> /\ AllDigits(t)

\* the header lines of data that carry a well-formed Content-Length
ContentLengthLines(data) ==
    { i \in 2..Len(RequestLines(data)) :
        /\ HasContentLengthName(RequestLines(data)[i])
        /\ IsUnsignedDecimal(HeaderValueText(RequestLines(data)[i])) }

\* the content-length the header block of data declares: that of its last
\* Content-Length line, 0 without one
DeclaredContentLength(data) ==
    IF ContentLengthLines(data) = {} THEN 0
    ELSE LET k == CHOOSE i \in ContentLengthLines(data) :
                      \A j \in ContentLengthLines(data) : j <= i
         IN  AsUsize(Wrap(DecimalValue(HeaderValueText(RequestLines(data)[k])), 4))

\* C21: parse returns Incomplete(None) whenever the buffer has no empty line,
\* and Incomplete(Some(content_length)) whenever the header block is
\* terminated, content-length > 0 and fewer than content-length bytes follow
\* the empty line; it returns no Request in either case.
C21_IncompleteHints ==
    /\ (ParseCalled /\ FirstBlankEnd(p_data) = 0) => p_res = ParseIncomplete(None)
    /\ (/\ ParseCalled
        /\ FirstBlankEnd(p_data) # 0
        /\ DeclaredContentLength(p_data) > 0
        /\ Len(p_data) - FirstBlankEnd(p_data) < DeclaredContentLength(p_data))
          => p_res = ParseIncomplete(Some(DeclaredContentLength(p_data)))

\* C22: a buffer whose first CR LF terminated line has an unknown method, no
\* path token or an empty one makes parse return ProtocolError, with or
\* without the empty line that ends the header block.
C22_MalformedRequestLine ==
    (/\ ParseCalled
     /\ FirstLine(p_data) # None
     /\ RequestLineMalformed(FirstLine(p_data)[1]))
        => p_res.tag = "ProtocolError"

\* C27: a header line named Content-Length (in any letter case) whose value
\* is not an unsigned decimal makes parse return ProtocolError.
C27_InvalidContentLength ==
    (/\ ParseCalled
     /\ \E i \in 2..Len(RequestLines(p_data)) :
           /\ HasContentLengthName(RequestLines(p_data)[i])
           /\ ~IsUnsignedDecimal(HeaderValueText(RequestLines(p_data)[i])))
        => p_res.tag = "ProtocolError"

----------------------------------------------------------------------------
(* Properties of Request::get_header                                        *)

\* the header lines of data: the complete lines after the request line, up
\* to the first empty line
HeaderBlockLines(data) == SubSeq(RequestLines(data), 2, Len(RequestLines(data)))

\* a query selects a header by its variant, and a fallback header by its
\* name ignoring case
QuerySelects(query, h) ==
    IF query.variant = "Other"
    THEN h.variant = "Other" /\ eq_ignore_ascii_case(query.key, h.key)
    ELSE h.variant = query.variant

\* the positions of the header lines of data that the query selects
SelectedLines(data, query) ==
    { i \in 1..Len(HeaderBlockLines(data)) :
        /\ resolve_header(HeaderBlockLines(data)[i]) # None
        /\ QuerySelects(query, resolve_header(HeaderBlockLines(data)[i])[1]) }

FirstSelected(data, query) ==
    CHOOSE i \in SelectedLines(data, query) : \A j \in SelectedLines(data, query) : i <= j

\* C28: get_header(query) returns the first header line, in buffer order,
\* of the variant of the query (of the name of the query, ignoring case, for
\* the fallback variant), whatever value the query carries; it returns
\* nothing when no line is selected.
C28_GetHeaderFirstMatch ==
    p_get # NotAsked =>
        IF SelectedLines(p_data, p_get[1].query) = {}
        THEN p_get[1].got = None
        ELSE p_get[1].got =
                resolve_header(HeaderBlockLines(p_data)[FirstSelected(p_data, p_get[1].query)])

\* two lines are selected by a fallback query whose name differs from theirs
\* in letter case, and the first was returned
C28_Witness ==
    /\ p_get # NotAsked
    /\ p_get[1].query.variant = "Other"
    /\ SelectedLines(p_data, p_get[1].query) = {1, 2}
    /\ p_get[1].got # None
    /\ p_get[1].got[1].key # p_get[1].query.key
    /\ p_get[1].got = resolve_header(HeaderBlockLines(p_data)[1])
    /\ p_get[1].got # resolve_header(HeaderBlockLines(p_data)[2])

----------------------------------------------------------------------------
(* Properties of with_status and of flushing                                *)

\* the code and phrase of a status line, written out
StatusText(status) ==
    CASE status.kind = "OK" -> <<50, 48, 48, 32, 79, 75>>                       \* 200 OK
      [] status.kind = "NotFound" ->
            <<52, 48, 52, 32, 78, 111, 116, 32, 70, 111, 117, 110, 100>>        \* 404 Not Found
      [] status.kind = "Other" -> Decimal(status.n)

\* HTTP/1.1 200 OK, Server: RustServer, Content-Type: text/html, empty line
ResponseDefault ==
    <<72, 84, 84, 80, 47, 49, 46, 49, 32, 50, 48, 48, 32, 79, 75, 13, 10>> \o
    <<83, 101, 114, 118, 101, 114, 58, 32, 82, 117, 115, 116, 83, 101, 114, 118, 101, 114, 13, 10>> \o
    <<67, 111, 110, 116, 101, 110, 116, 45, 84, 121, 112, 101, 58, 32,
      116, 101, 120, 116, 47, 104, 116, 109, 108, 13, 10>> \o
    <<13, 10>>

\* status OK, header Content-Type text/html, no_body, against host RustServer
ResponseDefaultCalls ==
    /\ r_server = <<82, 117, 115, 116, 83, 101, 114, 118, 101, 114>>
    /\ Len(r_calls) = 3
    /\ r_calls[1].op = "with_status" /\ r_calls[1].status = StatusOK
    /\ r_calls[2].op = "with_header"
    /\ r_calls[2].header =
          ResponseHeader("ContentType", <<>>, <<116, 101, 120, 116, 47, 104, 116, 109, 108>>, 0)
    /\ r_calls[3].op = "no_body"

\* C29: with_status writes HTTP/1.1, the code and phrase (the digits alone
\* for Other(n)) and CR LF, then `Server: <host>` CR LF if and only if the
\* host is not empty; status OK, Content-Type text/html and no_body against
\* host RustServer give exactly the four lines of ResponseDefault.
C29_StatusLineAndServer ==
    /\ (Len(r_calls) = 1 /\ r_calls[1].op = "with_status" /\ r_result = "Ok") =>
          r_out = <<72, 84, 84, 80, 47, 49, 46, 49, 32>> \o StatusText(r_calls[1].status)
                     \o <<13, 10>> \o
                  (IF r_server = <<>> THEN <<>>
                   ELSE <<83, 101, 114, 118, 101, 114, 58, 32>> \o r_server \o <<13, 10>>)
    /\ (ResponseDefaultCalls /\ RespDone) => r_out = ResponseDefault

\* the response of test_http_response_default has been written in full
C29_Witness == ResponseDefaultCalls /\ RespDone /\ Len(r_out) = 64

\* C30: when with_status, with_header, no_body, with_body or upgrade returns
\* successfully, the stream has been flushed: no accepted byte is left
\* without a flush after it.
C30_FlushedOnReturn ==
    (r_calls # <<>> /\ r_result \in {"Ok", "Websocket"}) => r_unflushed = <<>>

----------------------------------------------------------------------------
(* Properties of the read-more-then-retry protocol of decode and receive    *)

DecodeCalled == w_mode = "decode" /\ w_given >= 1
Fragmented(h) == h[1] < 128 \/ h[1] % 16 = 0

\* the number of bytes through the next header field that n bytes of h do
\* not reach: the two fixed bytes, the extended length, the mask
NextFieldEnd(h, n) ==
    IF n < 2 THEN 2
    ELSE IF LenField(h) = 126 /\ n < 4 THEN 4
    ELSE IF LenField(h) = 127 /\ n < 10 THEN 10
    ELSE TierHeaderLen(h)

\* C32: when decode returns InsufficientData(k) for n bytes, k >= 1 and k is
\* the number of bytes through the next undecoded header field minus n;
\* with fewer than k more bytes decode still returns InsufficientData; and
\* n + k does not exceed the size of the header being decoded.
C32_InsufficientDataCount ==
    (DecodeCalled /\ w_dec.tag = "InsufficientData") =>
        /\ w_dec.n >= 1
        /\ w_dec.n = NextFieldEnd(w_hdr, w_given) - w_given
        /\ \A j \in 0..(w_dec.n - 1) :
              decode(SubSeq(w_hdr, 1, w_given + j)).tag = "InsufficientData"
        /\ w_given >= 2 => w_given + w_dec.n <= TierHeaderLen(w_hdr)

\* C33: given exactly the full header of a frame (2, 4 or 10 bytes, plus 4
\* when the mask bit is set), decode returns the frame; its mask is the 4
\* bytes after the length field.
C33_DecodeFullHeader ==
    (DecodeCalled /\ w_given >= 2 /\ ~Fragmented(w_hdr) /\ w_given = TierHeaderLen(w_hdr)) =>
        /\ w_dec.tag = "Ok"
        /\ w_dec.frame.masked = MaskBit(w_hdr)
        /\ w_dec.frame.mask =
              IF MaskBit(w_hdr)
              THEN Some(SubSeq(w_hdr, TierHeaderLen(w_hdr) - 3, TierHeaderLen(w_hdr)))
              ELSE None

\* C34: decode of fewer than 2 bytes returns InsufficientData(2 - n); decode
\* of 2 bytes or more with fin clear or opcode 0 returns Unsupported; receive
\* then returns Unsupported and has read no byte of the payload.
C34_FragmentUnsupported ==
    /\ (DecodeCalled /\ w_given < 2) => w_dec = InsufficientData(2 - w_given)
    /\ (DecodeCalled /\ w_given >= 2 /\ Fragmented(w_hdr)) => w_dec.tag = "Unsupported"
    /\ (ReceiveReturned /\ ReceiveAtFrameStart /\ ReceivedFrame.opcode = 0) =>
          /\ w_rcv.tag = "Unsupported"
          /\ w_stream = ReceivedFrame.payload \o FramesAfter
          /\ w_buf = w_rcv.buf0

\* C39: receive reads at most 14 header bytes before the payload, so that
\* no read targets a position outside header_buf.
C39_HeaderReadsInBounds ==
    ReceiveReturned => w_rcv.tag # "Panic"

----------------------------------------------------------------------------
(* Properties of apply_mask                                                 *)

\* C35: apply_mask applied twice with the same mask leaves the payload as
\* it was; apply_mask of a frame without a mask leaves the payload unchanged.
C35_MaskInvolution ==
    w_mode = "mask" =>
        /\ w_msk.n = 2 => w_msk.data = w_msk.data0
        /\ (w_msk.n >= 1 /\ w_msk.frame.mask = None) => w_msk.data = w_msk.data0

\* a payload longer than the mask that one application changed in every
\* byte position of the mask, back to itself after the second
C35_Witness ==
    /\ w_mode = "mask" /\ w_msk.n = 2
    /\ w_msk.frame.mask = Some(<<255, 0, 170, 85>>)
    /\ Len(w_msk.data0) = 9
    /\ apply_mask(w_msk.frame, w_msk.data0) # w_msk.data0
    /\ w_msk.data = w_msk.data0

----------------------------------------------------------------------------
(* Properties of RequestHeader::try_from                                    *)

Resolved == a_op = "resolve" /\ a_out # <<>>
FoldCase(t) == [i \in 1..Len(t) |-> IF t[i] >= 97 /\ t[i] <= 122 THEN t[i] - 32 ELSE t[i]]
\* the catalog entries whose name equals name when letter case is ignored
CatalogEntries(name) ==
    { i \in 1..Len(RequestHeaderArms) : FoldCase(RequestHeaderArms[i][2]) = FoldCase(name) }

\* C36: a name equal to a catalog name ignoring ASCII case resolves to that
\* catalog variant with the value unchanged (for Content-Length: to the
\* Content-Length variant, or it fails); every other name resolves to the
\* fallback variant holding the name and the value exactly; resolution fails
\* for no name other than Content-Length.
C36_ResolveByName ==
    Resolved =>
        /\ \A i \in CatalogEntries(a_in.name) :
              IF RequestHeaderArms[i][1] = "ContentLength"
              THEN a_out.ok => a_out.h.variant = "ContentLength"
              ELSE /\ a_out.ok
                   /\ a_out.h.variant = RequestHeaderArms[i][1]
                   /\ a_out.h.val = a_in.value
        /\ CatalogEntries(a_in.name) = {} =>
              /\ a_out.ok
              /\ a_out.h = RequestHeader("Other", a_in.name, a_in.value, 0)
        /\ ~a_out.ok => FoldCase(a_in.name) = FoldCase(REQ_HEAD_CONTENT_LENGTH)

\* SEC-WEBSOCKET-KEY in upper case resolved to SecWebSocketKey with the
\* value ` a B ` as given
C36_Witness ==
    /\ Resolved
    /\ a_in.name = AsciiUpper(REQ_HEAD_SEC_WEBSOCKET_KEY)
    /\ a_in.name # REQ_HEAD_SEC_WEBSOCKET_KEY
    /\ a_in.value = <<32, 97, 32, 66, 32>>
    /\ a_out.ok /\ a_out.h.variant = "SecWebSocketKey" /\ a_out.h.val = a_in.value

----------------------------------------------------------------------------
(* Properties of Request::parse on bytes that are not text                  *)

\* data, made of one- and two-byte characters, has a byte that no character
\* accounts for: a byte that starts no character, a lead byte without its
\* continuation byte, or a continuation byte without its lead byte
IsLead2(b) == b >= 194 /\ b <= 223
IsTail(b) == b >= 128 /\ b <= 191
BrokenAt(data, i) ==
    \/ data[i] \in {192, 193} \/ data[i] >= 245
    \/ IsLead2(data[i]) /\ (i = Len(data) \/ ~IsTail(data[i + 1]))
    \/ IsTail(data[i]) /\ (i = 1 \/ ~IsLead2(data[i - 1]))
BrokenText(data) == \E i \in 1..Len(data) : BrokenAt(data, i)

\* C37: parse returns ProtocolError whenever a byte anywhere in the buffer,
\* the body and what follows it included, makes the buffer invalid text,
\* however well-formed the request line and the headers are.
C37_InvalidTextRejected ==
    (ParseCalled /\ BrokenText(p_data)) =>
        p_res = ParseProtocolError("http request is not valid utf8")

\* `GET /`, Content-Length:2, the empty line, the body `ab`, and after the
\* body the first byte of a two-byte character: rejected
C37_Witness ==
    /\ p_data = <<71, 69, 84, 32, 47>> \o CRLF
                \o <<67, 111, 110, 116, 101, 110, 116, 45, 76, 101, 110, 103, 116, 104, 58, 50>>
                \o CRLF \o CRLF \o <<97, 98, 195>>
    /\ RequestParse(SubSeq(p_data, 1, Len(p_data) - 1)).tag = "Ok"
    /\ BrokenAt(p_data, Len(p_data))
    /\ p_res.tag = "ProtocolError"

----------------------------------------------------------------------------
(* Properties of the header values kept on the Request                      *)

\* the field of req that parse_header_line keeps for the variant of query
CachedField(req, query) ==
    CASE query.variant = "ContentLength" -> req.content_length
      [] query.variant = "Host" -> req.host
      [] query.variant = "ContentType" -> req.content_type
      [] query.variant = "UserAgent" -> req.user_agent

\* the value that field has when it agrees with the header h
FieldFor(h) ==
    CASE h.variant = "ContentLength" -> h.num
      [] h.variant = "Host" -> h.val
      [] h.variant = "ContentType" -> Some(h.val)
      [] h.variant = "UserAgent" -> Some(h.val)

\* C38: on a successfully parsed request, content_type, host, user_agent and
\* content_length each hold the value that get_header returns for their
\* variant, also when a header name occurs more than once.
C38_CachedFieldsAgree ==
    (p_get # NotAsked /\ p_get[1].query.variant # "Other" /\ p_get[1].got # None) =>
        CachedField(p_res.req, p_get[1].query) = FieldFor(p_get[1].got[1])

----------------------------------------------------------------------------
(* Properties of the Content-Length header of a response with a body        *)

\* the positions of the Content-Length lines among the header lines of out
ContentLengthLinesOf(out) ==
    { k \in 1..Len(HeadLines(out)) : IsContentLengthLine(HeadLines(out)[k]) }

\* C40: a response completed with with_body carries at most one
\* Content-Length header, and the value of that header is the number of body
\* bytes after the blank line, whatever headers, a Content-Length among
\* them, were given to with_header before.
C40_SingleContentLength ==
    (RespDone /\ r_calls[Len(r_calls)].op = "with_body") =>
        /\ Cardinality(ContentLengthLinesOf(r_out)) <= 1
        /\ \A k \in ContentLengthLinesOf(r_out) :
              trim(splitn(HeadLines(r_out)[k], 2, COLON)[2])
                  = Decimal(Len(r_out) - FirstBlankEnd(r_out))

----------------------------------------------------------------------------
(* Properties of sec_websocket_accept_val                                   *)

AcceptReturned == a_op = "accept" /\ a_out # <<>>

\* the 64 characters of base64 in the order of their values: A-Z a-z 0-9 + /
Base64Alphabet ==
    [i \in 1..26 |-> 64 + i] \o [i \in 1..26 |-> 96 + i] \o [i \in 1..10 |-> 47 + i]
    \o <<43, 47>>
IsBase64Char(c) == \E v \in 1..64 : Base64Alphabet[v] = c
Base64Value(c) == (CHOOSE v \in 1..64 : Base64Alphabet[v] = c) - 1

\* the 3 bytes that 4 characters stand for
Base64Group(g) ==
    LET n == [i \in 1..4 |-> Base64Value(g[i])]
    IN  << (n[1] * 4) + (n[2] \div 16), ((n[2] % 16) * 16) + (n[3] \div 4),
           ((n[3] % 4) * 64) + n[4] >>

\* t is the base64 text, with padding, of the 20 bytes d
IsBase64Of20(t, d) ==
    /\ Len(t) = 28
    /\ \A i \in 1..27 : IsBase64Char(t[i])
    /\ t[28] = 61
    /\ \A g \in 0..5 : Base64Group(SubSeq(t, (4 * g) + 1, (4 * g) + 4)) = SubSeq(d, (3 * g) + 1, (3 * g) + 3)
    /\ Base64Group(SubSeq(t, 25, 27) \o <<65>>) = SubSeq(d, 19, 20) \o <<0>>

\* s3pPLMBiTxaQ9kYGzzhZRbK+xOo=
RfcAccept ==
    <<115, 51, 112, 80, 76, 77, 66, 105, 84, 120, 97, 81, 57, 107, 89, 71, 122, 122, 104,
      90, 82, 98, 75, 43, 120, 79, 111, 61>>

\* C31: sec_websocket_accept_val never fails; it returns exactly 28 ASCII
\* characters, the base64 text of SHA-1(key followed by the magic string);
\* for the key dGhlIHNhbXBsZSBub25jZQ== it returns
\* s3pPLMBiTxaQ9kYGzzhZRbK+xOo=.
C31_AcceptToken ==
    AcceptReturned =>
        /\ a_out.ok
        /\ Len(a_out.val) = 28
        /\ \A i \in 1..Len(a_out.val) : a_out.val[i] < 128
        /\ IsBase64Of20(a_out.val, Sha1(a_in \o SEC_WEBSOCKET_ACCEPT_MAGIC))
        /\ a_in = RfcKey => a_out.val = RfcAccept

\* the key of the RFC has been given and its 28 characters returned
C31_Witness ==
    /\ AcceptReturned
    /\ a_in = RfcKey
    /\ a_out.ok
    /\ a_out.val = RfcAccept

====
